---- MODULE Spec2Model ----
(***************************************************************************)
(* Authentication core of the codeshare platform backend: the token        *)
(* service (jwt.utils), the authenticate / optionalAuth middleware, the     *)
(* /auth routes (register, login, refresh, logout) and the external         *)
(* identity (Google) verify callback, over the User collection.             *)
(*                                                                          *)
(* JavaScript strings are sequences of one-character strings.  A JWT is    *)
(* the record of what jsonwebtoken signs: the payload, iat, exp and the     *)
(* secret it was signed with; two tokens are the same string exactly when   *)
(* these records are equal.  A request handler is one atomic action.        *)
(***************************************************************************)
EXTENDS Integers, Sequences, FiniteSets, TLC

\* ------------------------------------------------------------------ bounds
\* The clock runs over the seconds 0..MaxTime.
MaxTime == 1
\* The token lifetimes the environment may configure, in seconds.
TTLs == {1, 2}

\* ------------------------------------------------------- program constants
UsernameMin == 3
UsernameMax == 20
PasswordMin == 6
PasswordMax == 100
LoginPasswordMin == 1

\* ----------------------------------------------------------------- strings
Letters == {"a", "b", "c", "e", "i", "l", "o", "r", "s", "t", "w", "x", "B"}
Digits == {"1"}

Alice == <<"a", "l", "i">>
Bob == <<"b", "o", "b">>
ShortName == <<"a", "l">>
EmailA == <<"a", "@", "x", ".", "c", "o">>
EmailB == <<"b", "@", "x", ".", "c", "o">>
BadEmail == <<"a", "x", ".", "c", "o">>
Secret1 == <<"s", "e", "c", "r", "e", "t">>
Wrong == <<"w", "r", "o", "n", "g">>
EmptyStr == <<>>
Bearer == <<"B", "e", "a", "r", "e", "r">>
Basic == <<"B", "a", "s", "i", "c">>
Garbage == <<"x", ".", "x">>

\* The values an unset field of a document takes.
NullToken == [null |-> TRUE]
NoPassword == [absent |-> TRUE]
NullId == "null"
NullImage == [null |-> TRUE]

\* ---------------------------------------------------------- error objects
ApiError(message, statusCode) ==
    [kind |-> "ApiError", message |-> message, statusCode |-> statusCode]

\* Any other thrown value: a jsonwebtoken error, a mongoose error.
ThrownError(name) ==
    [kind |-> "Error", message |-> name, statusCode |-> 0]

\* The error a write that violates a unique index is rejected with; the
\* message names the field of the index.
DuplicateKeyError(field) ==
    [kind |-> "DuplicateKey", message |-> field, statusCode |-> 0]

\* What the error middleware answers for an error handed to next: an
\* ApiError as it says, a rejected conflicting write as Conflict.
errorHandler(err) ==
    IF err.kind = "ApiError"
    THEN [status |-> err.statusCode, message |-> err.message]
    ELSE IF err.kind = "DuplicateKey"
    THEN [status |-> 409, message |-> err.message]
    ELSE [status |-> 500, message |-> "Internal server error"]

\* -------------------------------------------------------------- validators
WordChars == Letters \cup Digits \cup {"_"}

Has(body, field) == field \in DOMAIN body

\* An object without fields.
Absent == [x \in {} |-> <<>>]

AllIn(s, chars) == \A i \in 1..Len(s) : s[i] \in chars

\* z.string().email(): one "@", a local part that neither starts nor ends
\* with a dot, a dotted domain whose last label has two letters or more.
isEmail(s) ==
    LET ats == {i \in 1..Len(s) : s[i] = "@"}
    IN  /\ Cardinality(ats) = 1
        /\ LET p == CHOOSE i \in ats : TRUE
               local == SubSeq(s, 1, p - 1)
               domain == SubSeq(s, p + 1, Len(s))
               dots == {i \in 1..Len(domain) : domain[i] = "."}
           IN  /\ Len(local) >= 1
               /\ AllIn(local, WordChars \cup {".", "+", "-"})
               /\ local[1] # "."
               /\ local[Len(local)] # "."
               /\ AllIn(domain, Letters \cup Digits \cup {".", "-"})
               /\ dots # {}
               /\ 1 \notin dots
               /\ \A i \in dots : i + 1 \notin dots
               /\ LET d == CHOOSE i \in dots : \A j \in dots : j <= i
                      tld == SubSeq(domain, d + 1, Len(domain))
                  IN  Len(tld) >= 2 /\ AllIn(tld, Letters)

\* The message of the first issue zod reports for the username field, or
\* <<>> when the field passes.
usernameIssue(body) ==
    IF ~Has(body, "username") THEN <<"Required">>
    ELSE IF Len(body.username) < UsernameMin
         THEN <<"Username must be at least 3 characters">>
    ELSE IF Len(body.username) > UsernameMax
         THEN <<"Username cannot exceed 20 characters">>
    ELSE IF ~(Len(body.username) >= 1 /\ AllIn(body.username, WordChars))
         THEN <<"Username can only contain letters, numbers, and underscores">>
    ELSE <<>>

emailIssue(body) ==
    IF ~Has(body, "email") THEN <<"Required">>
    ELSE IF ~isEmail(body.email) THEN <<"Invalid email address">>
    ELSE <<>>

registerPasswordIssue(body) ==
    IF ~Has(body, "password") THEN <<"Required">>
    ELSE IF Len(body.password) < PasswordMin
         THEN <<"Password must be at least 6 characters">>
    ELSE IF Len(body.password) > PasswordMax
         THEN <<"Password cannot exceed 100 characters">>
    ELSE <<>>

loginPasswordIssue(body) ==
    IF ~Has(body, "password") THEN <<"Required">>
    ELSE IF Len(body.password) < LoginPasswordMin
         THEN <<"Password is required">>
    ELSE <<>>

\* safeParse: the issues in schema order; success is the empty sequence.
registerSchema(body) ==
    usernameIssue(body) \o emailIssue(body) \o registerPasswordIssue(body)

loginSchema(body) ==
    emailIssue(body) \o loginPasswordIssue(body)

BioMax == 500

\* updateUserSchema: both fields optional.
updateUsernameIssue(body) ==
    IF ~Has(body, "username") THEN <<>> ELSE usernameIssue(body)

bioIssue(body) ==
    IF ~Has(body, "bio") THEN <<>>
    ELSE IF Len(body.bio) > BioMax THEN <<"Bio cannot exceed 500 characters">>
    ELSE <<>>

updateUserSchema(body) == updateUsernameIssue(body) \o bioIssue(body)

\* commentSchema: content is a string of 1 to 500 characters.
CommentMin == 1
CommentMax == 500

commentSchema(body) ==
    IF ~Has(body, "content") THEN <<"Required">>
    ELSE IF Len(body.content) < CommentMin THEN <<"Content is required">>
    ELSE IF Len(body.content) > CommentMax
    THEN <<"Comment cannot exceed 500 characters">>
    ELSE <<>>

\* updatePostSchema, for the fields of a post the model keeps: code is a
\* string of 1 to 10000 characters and language one of at least 1, both
\* optional.
CodeMin == 1
CodeMax == 10000
LanguageMin == 1

updatePostSchema(body) ==
    (IF ~Has(body, "code") THEN <<>>
     ELSE IF Len(body.code) < CodeMin THEN <<"Code is required">>
     ELSE IF Len(body.code) > CodeMax THEN <<"Code cannot exceed 10000 characters">>
     ELSE <<>>)
    \o (IF ~Has(body, "language") THEN <<>>
        ELSE IF Len(body.language) < LanguageMin THEN <<"Language is required">>
        ELSE <<>>)

\* ------------------------------------------------------------------- state
VARIABLES
    users,                   \* the User collection: _id -> document
    nextId,                  \* number of documents created so far
    now,                     \* the clock, in seconds
    JWT_SECRET,              \* jwt.utils configuration, read at start-up
    JWT_REFRESH_SECRET,
    JWT_EXPIRES_IN,
    JWT_REFRESH_EXPIRES_IN,
    last,                    \* history: the refresh token of each user's most
                             \* recent successful register, login or refresh
    older,                   \* history: the refresh tokens issued to each user
                             \* by the issuances before that one
    consumed,                \* history: the refresh tokens a refresh answered
                             \* 200 to
    loggedOut,               \* history: users whose last logout was followed
                             \* by no login
    req,                     \* the request handled last
    res,                     \* and its response
    pending,                 \* requests between their check and their save
    limiter,                 \* the store of aiRateLimiter: key -> hits, resetTime
    served,                  \* history: when each user's requests reached
                             \* the explanation handler
    posts,                   \* the Post collection: _id -> document
    OPENAI_API_KEY,          \* ai.service configuration, read at start-up
    apiCalls,                \* history: calls made to the completion API
    storeOps,                \* the store operations of the last request
    likes,                   \* the Like collection: _id -> document
    comments,                \* the Comment collection: _id -> document
    explained,               \* history: the code and language each stored
                             \* explanation was generated from
    client                   \* the browser: local storage and AuthProvider

config == <<JWT_SECRET, JWT_REFRESH_SECRET, JWT_EXPIRES_IN, JWT_REFRESH_EXPIRES_IN>>
history == <<last, older, consumed, loggedOut>>
content == <<likes, comments, explained, client>>
extra == <<pending, limiter, served, posts, OPENAI_API_KEY, apiCalls, storeOps, content>>
vars == <<users, nextId, now, config, history, req, res, extra>>

\* The ids the store hands out, in this order; an id is never reused.
UserIds == {1, 2}
MaxUsers == Cardinality(UserIds)
Unset == "unset"

\* process.env.X || default
OrDefault(env, default) == IF env = Unset \/ env = "" THEN default ELSE env

\* --------------------------------------------------------- credential store
\* bcrypt, as the pre-save hook and comparePassword use it.
Hash(password) == [hash |-> password]

comparePassword(user, candidate) == user.password = Hash(candidate)

findById(id) == {users[i] : i \in {j \in DOMAIN users : j = id}}

findByEmail(email) ==
    {users[i] : i \in {j \in DOMAIN users : users[j].email = email}}

findByGoogleId(id) ==
    {users[i] : i \in {j \in DOMAIN users : users[j].googleId = id}}

\* Mutant: the existence check looks at the email only.
findByEmailOrUsername_emailOnly(email, username) ==
    {users[i] : i \in {j \in DOMAIN users : users[j].email = email}}

findByEmailOrUsername(email, username) ==
    {users[i] : i \in {j \in DOMAIN users :
        users[j].email = email \/ users[j].username = username}}

\* Mutant: the schema declares no unique index.
DuplicateKey_noIndex(doc) == FALSE

\* The unique indexes of the User schema, as save() enforces them.
DuplicateKey(doc) ==
    \E i \in DOMAIN users :
        /\ i # doc._id
        /\ \/ users[i].username = doc.username
           \/ users[i].email = doc.email
           \/ (doc.googleId # NullId /\ users[i].googleId = doc.googleId)

\* The index a write of doc violates, as the rejection names it.
duplicateField(doc) ==
    IF \E i \in DOMAIN users : i # doc._id /\ users[i].email = doc.email
    THEN "email"
    ELSE IF \E i \in DOMAIN users : i # doc._id /\ users[i].username = doc.username
    THEN "username"
    ELSE "googleId"

\* ------------------------------------------------------------ token service
IsJwt(token) == "sig" \in DOMAIN token

\* jwt.sign(payload, secret, {expiresIn}) at clock second t.
sign(userId, username, secret, expiresIn, t) ==
    [userId |-> userId, username |-> username, iat |-> t,
     exp |-> t + expiresIn, sig |-> secret]

\* Mutant: the signature is checked and the expiry is not.
verify_noExpiry(token, secret, t) ==
    /\ IsJwt(token)
    /\ token.sig = secret

\* jwt.verify(token, secret) at clock second t: TRUE when it returns the
\* decoded payload, FALSE when it throws.
verify(token, secret, t) ==
    /\ IsJwt(token)
    /\ token.sig = secret
    /\ t < token.exp

generateAccessToken(userId, username, t) ==
    sign(userId, username, JWT_SECRET, JWT_EXPIRES_IN, t)

generateRefreshToken(userId, username, t) ==
    sign(userId, username, JWT_REFRESH_SECRET, JWT_REFRESH_EXPIRES_IN, t)

\* Mutant: access tokens are verified with the refresh secret.
verifyAccessToken_refreshSecret(token, t) == verify(token, JWT_REFRESH_SECRET, t)

verifyAccessToken(token, t) == verify(token, JWT_SECRET, t)

verifyRefreshToken(token, t) == verify(token, JWT_REFRESH_SECRET, t)

generateTokens(userId, username, t) ==
    [accessToken |-> generateAccessToken(userId, username, t),
     refreshToken |-> generateRefreshToken(userId, username, t)]

\* ------------------------------------------------------------------ inputs
RawStr(chars) == [raw |-> chars]

NoTokens == [accessToken |-> NullToken, refreshToken |-> NullToken]

Faults == {"none", "find", "save", "save2"}

\* The refresh tokens handed to clients so far, and the access tokens
\* generateTokens made with them.
IssuedRefresh ==
    UNION {older[u] : u \in UserIds} \cup
    {last[u] : u \in {v \in UserIds : last[v] # NullToken}}

AccessOf(r) == [r EXCEPT !.exp = r.iat + JWT_EXPIRES_IN, !.sig = JWT_SECRET]

IssuedAccess == {AccessOf(r) : r \in IssuedRefresh}

\* A token signed by somebody who does not hold the server's secrets.
Forged == sign(1, Alice, "attacker-key", MaxTime + 1, 0)

Presentable ==
    IssuedRefresh \cup IssuedAccess \cup {Forged, RawStr(Garbage), RawStr(EmptyStr)}

\* -------------------------------------------- state beyond the /auth routes
\* The requests that may be in flight at the same time.
Requests == {1, 2}

Idle == [op |-> "idle"]

\* A key the rate limiter has no entry for.
NoEntry == [hits |-> 0, resetTime |-> 0]

\* The browser with the page not loaded: local storage holds what earlier
\* visits left; user and loading are the values useState starts with; token
\* and me record what initAuth read and how GET /auth/me ended.
ClosedPage(storage) ==
    [pc |-> "closed", accessToken |-> storage.accessToken,
     refreshToken |-> storage.refreshToken,
     user |-> [absent |-> TRUE], loading |-> TRUE,
     token |-> NullToken, me |-> "none"]

\* No like, no comment, no explanation generated, the page not loaded.
InitContent ==
    /\ likes = <<>>
    /\ comments = <<>>
    /\ explained = <<>>
    /\ client = ClosedPage(NoTokens)

\* No request in flight, no limiter entry, no post, no API key.
InitExtra ==
    /\ InitContent
    /\ pending = [r \in Requests |-> Idle]
    /\ limiter = [u \in UserIds |-> NoEntry]
    /\ served = [u \in UserIds |-> <<>>]
    /\ posts = <<>>
    /\ OPENAI_API_KEY = Unset
    /\ apiCalls = 0
    /\ storeOps = <<>>

\* ------------------------------------------------------------------- Init
Init ==
    /\ users = <<>>
    /\ nextId = 0
    /\ now = 0
    /\ \E env \in {Unset} :
           JWT_SECRET = OrDefault(env, "default-secret-change-me")
    /\ \E env \in {Unset, "default-secret-change-me"} :
           JWT_REFRESH_SECRET = OrDefault(env, "default-refresh-secret")
    /\ JWT_EXPIRES_IN \in TTLs
    /\ JWT_REFRESH_EXPIRES_IN \in TTLs
    /\ last = [u \in UserIds |-> NullToken]
    /\ older = [u \in UserIds |-> {}]
    /\ consumed = {}
    /\ loggedOut = {}
    /\ req = [op |-> "init"]
    /\ res = [status |-> 0]
    /\ InitExtra

\* The history of one successful issuance of a token pair to user u.
RecordIssue(u, refreshToken) ==
    /\ last' = [last EXCEPT ![u] = refreshToken]
    /\ older' = [older EXCEPT ![u] =
                    IF last[u] = NullToken THEN @ ELSE @ \cup {last[u]}]

\* One second passes.
Tick ==
    /\ now < MaxTime
    /\ now' = now + 1
    /\ req' = [op |-> "tick"]
    /\ res' = [status |-> 0]
    /\ UNCHANGED <<users, nextId, config, history>>

\* ------------------------------------------------------------ /auth routes
Answer(status, message, tokens) ==
    [status |-> status, message |-> message,
     accessToken |-> tokens.accessToken, refreshToken |-> tokens.refreshToken]

\* next(error): the answer of the error middleware.
Fail(err) ==
    Answer(errorHandler(err).status, errorHandler(err).message, NoTokens)

\* Mutant: the new document keeps no external id.
NewUser_noGoogleId(id, username, email, password, googleId) ==
    [_id |-> id, username |-> username, email |-> email, password |-> password,
     googleId |-> NullId, refreshToken |-> NullToken,
     bio |-> EmptyStr, profileImage |-> NullImage]

NewUser(id, username, email, password, googleId) ==
    [_id |-> id, username |-> username, email |-> email, password |-> password,
     googleId |-> googleId, refreshToken |-> NullToken,
     bio |-> EmptyStr, profileImage |-> NullImage]

\* POST /auth/register.  The document findOne({$or}) returns when several
\* match is the store's choice.
Register(body, fault) ==
    /\ req' = [op |-> "register", body |-> body, fault |-> fault]
    /\ UNCHANGED <<now, config, consumed, loggedOut>>
    /\ IF registerSchema(body) # <<>>
       THEN /\ res' = Fail(ApiError(registerSchema(body)[1], 400))
            /\ UNCHANGED <<users, nextId, last, older>>
       ELSE IF fault = "find"
       THEN /\ res' = Fail(ThrownError("MongoError"))
            /\ UNCHANGED <<users, nextId, last, older>>
       ELSE IF findByEmailOrUsername(body.email, body.username) # {}
       THEN /\ \E existingUser \in findByEmailOrUsername(body.email, body.username) :
                   res' = IF existingUser.email = body.email
                          THEN Fail(ApiError("Email already registered", 409))
                          ELSE Fail(ApiError("Username already taken", 409))
            /\ UNCHANGED <<users, nextId, last, older>>
       ELSE IF fault = "save"
       THEN /\ res' = Fail(ThrownError("MongoError"))
            /\ UNCHANGED <<users, nextId, last, older>>
       ELSE /\ nextId < MaxUsers
            /\ LET id == nextId + 1
                   user == NewUser(id, body.username, body.email,
                                   Hash(body.password), NullId)
                   tokens == generateTokens(id, user.username, now)
               IN  /\ nextId' = id
                   /\ IF fault = "save2"
                      THEN /\ users' = (id :> user) @@ users
                           /\ res' = Fail(ThrownError("MongoError"))
                           /\ UNCHANGED <<last, older>>
                      ELSE /\ users' = (id :> [user EXCEPT !.refreshToken =
                                                  tokens.refreshToken]) @@ users
                           /\ res' = Answer(201, "User registered successfully", tokens)
                           /\ RecordIssue(id, tokens.refreshToken)

\* The two rejections of POST /auth/login: no such account (or one without
\* a password), and a password that does not match.
loginNoUserError == ApiError("Invalid email or password", 401)

\* Mutant: a wrong password is told apart from an unknown email.
loginMismatchError_distinct == ApiError("Incorrect password", 401)

loginMismatchError == ApiError("Invalid email or password", 401)

\* POST /auth/login.
Login(body, fault) ==
    /\ req' = [op |-> "login", body |-> body, fault |-> fault]
    /\ UNCHANGED <<nextId, now, config, consumed>>
    /\ IF loginSchema(body) # <<>>
       THEN /\ res' = Fail(ApiError(loginSchema(body)[1], 400))
            /\ UNCHANGED <<users, last, older, loggedOut>>
       ELSE IF fault = "find"
       THEN /\ res' = Fail(ThrownError("MongoError"))
            /\ UNCHANGED <<users, last, older, loggedOut>>
       ELSE IF \/ findByEmail(body.email) = {}
               \/ \A user \in findByEmail(body.email) : user.password = NoPassword
       THEN /\ res' = Fail(loginNoUserError)
            /\ UNCHANGED <<users, last, older, loggedOut>>
       ELSE LET user == CHOOSE u \in findByEmail(body.email) : TRUE
                tokens == generateTokens(user._id, user.username, now)
            IN  IF ~comparePassword(user, body.password)
                THEN /\ res' = Fail(loginMismatchError)
                     /\ UNCHANGED <<users, last, older, loggedOut>>
                ELSE IF fault = "save"
                THEN /\ res' = Fail(ThrownError("MongoError"))
                     /\ UNCHANGED <<users, last, older, loggedOut>>
                ELSE /\ users' = [users EXCEPT ![user._id].refreshToken =
                                     tokens.refreshToken]
                     /\ res' = Answer(200, "Login successful", tokens)
                     /\ RecordIssue(user._id, tokens.refreshToken)
                     /\ loggedOut' = loggedOut \ {user._id}

\* Mutant: the catch block hands every error on as it is, as login's does.
refreshCatch_rethrow(error) == Fail(error)

\* The catch block of POST /auth/refresh: whatever is thrown that is no
\* ApiError (by jwt.verify, by the store) is answered as 401.
refreshCatch(error) ==
    IF error.kind = "ApiError"
    THEN Fail(error)
    ELSE Fail(ApiError("Invalid refresh token", 401))

\* The answer of POST /auth/refresh in the current state.
refresh(body, fault) ==
    IF ~Has(body, "refreshToken") \/ body.refreshToken = RawStr(EmptyStr)
    THEN refreshCatch(ApiError("Refresh token required", 400))
    ELSE IF ~verifyRefreshToken(body.refreshToken, now)
    THEN refreshCatch(ThrownError("JsonWebTokenError"))
    ELSE IF fault = "find"
    THEN refreshCatch(ThrownError("MongoError"))
    ELSE IF \/ findById(body.refreshToken.userId) = {}
            \/ \A user \in findById(body.refreshToken.userId) :
                   user.refreshToken # body.refreshToken
    THEN refreshCatch(ApiError("Invalid refresh token", 401))
    ELSE IF fault = "save"
    THEN refreshCatch(ThrownError("MongoError"))
    ELSE LET user == CHOOSE u \in findById(body.refreshToken.userId) : TRUE
         IN  Answer(200, "Token refreshed successfully",
                    generateTokens(user._id, user.username, now))

\* POST /auth/refresh: the answer, and on 200 the new refresh token saved.
Refresh(body, fault) ==
    /\ req' = [op |-> "refresh", body |-> body, fault |-> fault]
    /\ res' = refresh(body, fault)
    /\ UNCHANGED <<nextId, now, config, loggedOut>>
    /\ IF refresh(body, fault).status = 200
       THEN /\ users' = [users EXCEPT ![body.refreshToken.userId].refreshToken =
                            refresh(body, fault).refreshToken]
            /\ RecordIssue(body.refreshToken.userId, refresh(body, fault).refreshToken)
            /\ consumed' = consumed \cup {body.refreshToken}
       ELSE UNCHANGED <<users, last, older, consumed>>

\* ----------------------------------------------------- authentication middleware
\* Mutant: any scheme word before the first space will do.
startsWithBearer_anyScheme(authHeader) == Len(authHeader) >= 2

\* The Authorization header is the sequence of the pieces its string falls
\* into at each single space, so "Bearer x" is <<Bearer, x>> and "Bearer "
\* is <<Bearer, "">>.
startsWithBearer(authHeader) ==
    /\ Len(authHeader) >= 2
    /\ authHeader[1] = RawStr(Bearer)

\* authHeader.split(' ')[1]
splitToken(authHeader) == authHeader[2]

NoArg == [kind |-> "none", message |-> "", statusCode |-> 0]
NoUser == [absent |-> TRUE]

\* What a middleware run leaves: the arguments of its calls of next, in
\* order, and req.user.
Passed(nextArgs, user) == [nextArgs |-> nextArgs, user |-> user]

\* The catch block of authenticate.
authenticateCatch(error) ==
    IF error.kind = "ApiError"
    THEN Passed(<<error>>, NoUser)
    ELSE Passed(<<ApiError("Invalid or expired token", 401)>>, NoUser)

\* Mutant: a token is accepted only while its user holds a refresh token,
\* so that a logout ends the access tokens too.
authenticate_sessionBound(headers, fault) ==
    IF ~Has(headers, "authorization") \/ ~startsWithBearer(headers.authorization)
    THEN authenticateCatch(ApiError("Access token required", 401))
    ELSE LET token == splitToken(headers.authorization)
         IN  IF token = RawStr(EmptyStr)
             THEN authenticateCatch(ApiError("Access token required", 401))
             ELSE IF ~verifyAccessToken(token, now)
             THEN authenticateCatch(ThrownError("JsonWebTokenError"))
             ELSE IF fault = "find"
             THEN authenticateCatch(ThrownError("MongoError"))
             ELSE IF \/ findById(token.userId) = {}
                     \/ \A u \in findById(token.userId) : u.refreshToken = NullToken
             THEN authenticateCatch(ApiError("User not found", 401))
             ELSE Passed(<<NoArg>>, CHOOSE u \in findById(token.userId) : TRUE)

authenticate(headers, fault) ==
    IF ~Has(headers, "authorization") \/ ~startsWithBearer(headers.authorization)
    THEN authenticateCatch(ApiError("Access token required", 401))
    ELSE LET token == splitToken(headers.authorization)
         IN  IF token = RawStr(EmptyStr)
             THEN authenticateCatch(ApiError("Access token required", 401))
             ELSE IF ~verifyAccessToken(token, now)
             THEN authenticateCatch(ThrownError("JsonWebTokenError"))
             ELSE IF fault = "find"
             THEN authenticateCatch(ThrownError("MongoError"))
             ELSE IF findById(token.userId) = {}
             THEN authenticateCatch(ApiError("User not found", 401))
             ELSE Passed(<<NoArg>>, CHOOSE u \in findById(token.userId) : TRUE)

\* Mutant: the catch block of optionalAuth rejects as authenticate's does.
optionalAuthCatch_reject(error) ==
    Passed(<<ApiError("Invalid or expired token", 401)>>, NoUser)

\* The catch block of optionalAuth.
optionalAuthCatch(error) == Passed(<<NoArg>>, NoUser)

optionalAuth(headers, fault) ==
    IF ~Has(headers, "authorization") \/ ~startsWithBearer(headers.authorization)
    THEN Passed(<<NoArg>>, NoUser)
    ELSE LET token == splitToken(headers.authorization)
         IN  IF token = RawStr(EmptyStr)
             THEN Passed(<<NoArg>>, NoUser)
             ELSE IF ~verifyAccessToken(token, now)
             THEN optionalAuthCatch(ThrownError("JsonWebTokenError"))
             ELSE IF fault = "find"
             THEN optionalAuthCatch(ThrownError("MongoError"))
             ELSE IF findById(token.userId) = {}
             THEN Passed(<<NoArg>>, NoUser)
             ELSE Passed(<<NoArg>>, CHOOSE u \in findById(token.userId) : TRUE)

\* A request to a route behind authenticate, up to the call of next.
Authenticate(headers, fault) ==
    /\ req' = [op |-> "authenticate", headers |-> headers, fault |-> fault]
    /\ res' = authenticate(headers, fault)
    /\ UNCHANGED <<users, nextId, now, config, history>>

\* A request to a route behind optionalAuth, up to the call of next.
OptionalAuth(headers, fault) ==
    /\ req' = [op |-> "optionalAuth", headers |-> headers, fault |-> fault]
    /\ res' = optionalAuth(headers, fault)
    /\ UNCHANGED <<users, nextId, now, config, history>>

\* Mutant: the user is looked up before the header and the token are examined.
authenticateStoreOps_lookupFirst(headers) == <<"findById">>

\* The operations one run of authenticate issues on the User collection, in
\* order: User.findById, reached once the header and the token have passed.
authenticateStoreOps(headers) ==
    IF ~Has(headers, "authorization") \/ ~startsWithBearer(headers.authorization)
    THEN <<>>
    ELSE IF splitToken(headers.authorization) = RawStr(EmptyStr)
    THEN <<>>
    ELSE IF ~verifyAccessToken(splitToken(headers.authorization), now)
    THEN <<>>
    ELSE <<"findById">>

\* The same for one run of optionalAuth.
optionalAuthStoreOps(headers) ==
    IF ~Has(headers, "authorization") \/ ~startsWithBearer(headers.authorization)
    THEN <<>>
    ELSE IF splitToken(headers.authorization) = RawStr(EmptyStr)
    THEN <<>>
    ELSE IF ~verifyAccessToken(splitToken(headers.authorization), now)
    THEN <<>>
    ELSE <<"findById">>

\* The variables beyond the /auth routes that the middleware leaves alone.
LookupFrame ==
    UNCHANGED <<pending, limiter, served, posts, OPENAI_API_KEY, apiCalls, content>>

\* Mutant: the update leaves the stored refresh token in place.
clearRefreshToken_kept(doc) == doc

\* User.findByIdAndUpdate(id, { refreshToken: null }) on one document.
clearRefreshToken(doc) == [doc EXCEPT !.refreshToken = NullToken]

\* POST /auth/logout: authenticate, then the handler.
Logout(headers, fault) ==
    /\ req' = [op |-> "logout", headers |-> headers, fault |-> fault]
    /\ UNCHANGED <<nextId, now, config, last, older, consumed>>
    /\ LET auth == authenticate(headers, fault)
       IN  IF auth.nextArgs[1] # NoArg
           THEN /\ res' = Fail(auth.nextArgs[1])
                /\ UNCHANGED <<users, loggedOut>>
           ELSE IF auth.user = NoUser
           THEN /\ res' = Fail(ApiError("User not found", 401))
                /\ UNCHANGED <<users, loggedOut>>
           ELSE IF fault = "save"
           THEN /\ res' = Fail(ThrownError("MongoError"))
                /\ UNCHANGED <<users, loggedOut>>
           ELSE /\ users' = [users EXCEPT ![auth.user._id] = clearRefreshToken(@)]
                /\ res' = Answer(200, "Logout successful", NoTokens)
                /\ loggedOut' = loggedOut \cup {auth.user._id}

\* ------------------------------------------------- external identity login
\* String.prototype.toLowerCase on the model's alphabet.
toLowerCase(s) == [i \in 1..Len(s) |-> IF s[i] = "B" THEN "b" ELSE s[i]]

\* s.replace(/\s+/g, '_'): every run of spaces becomes one underscore.
replaceSpaces(s) ==
    LET keep == {i \in 1..Len(s) : s[i] # " " \/ i = 1 \/ s[i - 1] # " "}
        nth[k \in 1..Cardinality(keep)] ==
            CHOOSE i \in keep : Cardinality({j \in keep : j < i}) = k - 1
    IN  [k \in 1..Cardinality(keep) |-> IF s[nth[k]] = " " THEN "_" ELSE s[nth[k]]]

\* profile.displayName?.replace(/\s+/g, '_').toLowerCase() || `user_${Date.now()}`
synthUsername(profile, t) ==
    IF Has(profile, "displayName") /\ profile.displayName # EmptyStr
    THEN toLowerCase(replaceSpaces(profile.displayName))
    ELSE <<"u", "s", "e", "r", "_", ToString(t)>>

\* email || `${profile.id}@google.oauth`
synthEmail(profile) ==
    IF Has(profile, "email") /\ profile.email # EmptyStr
    THEN profile.email
    ELSE <<profile.id, "@", "g", "o", "o", "g", "l", "e", ".", "o", "a", "u", "t", "h">>

\* done(null, user): the strategy hands the account on.
Done(user) ==
    [status |-> 200, message |-> "done", accessToken |-> NullToken,
     refreshToken |-> NullToken, user |-> user]

\* Mutant: the account found by email is handed on without being linked.
linkGoogle_skip(doc, profile) == doc

\* user.googleId = profile.id
linkGoogle(doc, profile) == [doc EXCEPT !.googleId = profile.id]

\* The verify callback of the Google strategy: done(error, user).
GoogleVerify(profile, fault) ==
    /\ req' = [op |-> "google", profile |-> profile, fault |-> fault]
    /\ UNCHANGED <<now, config, history>>
    /\ IF fault = "find"
       THEN /\ res' = Fail(ThrownError("MongoError"))
            /\ UNCHANGED <<users, nextId>>
       ELSE IF findByGoogleId(profile.id) # {}
       THEN /\ res' = Done(CHOOSE u \in findByGoogleId(profile.id) : TRUE)
            /\ UNCHANGED <<users, nextId>>
       ELSE IF /\ Has(profile, "email") /\ profile.email # EmptyStr
               /\ findByEmail(profile.email) # {}
       THEN LET user == CHOOSE u \in findByEmail(profile.email) : TRUE
            IN  IF fault = "save"
                THEN /\ res' = Fail(ThrownError("MongoError"))
                     /\ UNCHANGED <<users, nextId>>
                ELSE /\ users' = [users EXCEPT ![user._id] = linkGoogle(@, profile)]
                     /\ res' = Done(linkGoogle(user, profile))
                     /\ UNCHANGED nextId
       ELSE /\ nextId < MaxUsers
            /\ LET user == NewUser(nextId + 1, synthUsername(profile, now),
                                   synthEmail(profile), NoPassword, profile.id)
               IN  IF fault = "save"
                   THEN /\ res' = Fail(ThrownError("MongoError"))
                        /\ UNCHANGED <<users, nextId>>
                   ELSE IF DuplicateKey(user)
                   THEN /\ res' = Fail(DuplicateKeyError(duplicateField(user)))
                        /\ UNCHANGED <<users, nextId>>
                   ELSE /\ users' = (user._id :> user) @@ users
                        /\ nextId' = user._id
                        /\ res' = Done(user)

\* ------------------------------------------- handlers, one await at a time
\* The same handlers with the store's answer to the existence check and the
\* save as separate steps, so that other requests run in between.  Request
\* r is one of the requests the server has in flight.
InFlightFrame ==
    UNCHANGED <<now, config, history, limiter, served, posts, OPENAI_API_KEY,
                apiCalls, storeOps, content>>

NoAnswer == [status |-> 0]

findByUsername(username) ==
    {users[i] : i \in {j \in DOMAIN users : users[j].username = username}}

\* POST /auth/register up to the answer of findOne({$or}).
RegisterCheck(r, body) ==
    /\ pending[r] = Idle
    /\ req' = [op |-> "register", body |-> body, r |-> r]
    /\ UNCHANGED <<users, nextId>>
    /\ InFlightFrame
    /\ IF registerSchema(body) # <<>>
       THEN /\ res' = Fail(ApiError(registerSchema(body)[1], 400))
            /\ UNCHANGED pending
       ELSE IF findByEmailOrUsername(body.email, body.username) # {}
       THEN /\ \E existingUser \in findByEmailOrUsername(body.email, body.username) :
                   res' = IF existingUser.email = body.email
                          THEN Fail(ApiError("Email already registered", 409))
                          ELSE Fail(ApiError("Username already taken", 409))
            /\ UNCHANGED pending
       ELSE /\ res' = NoAnswer
            /\ pending' = [pending EXCEPT ![r] = [op |-> "register", body |-> body]]

\* POST /auth/register from new User(...).save() on; the second save, which
\* only adds the refresh token, is taken together with the first.
RegisterSave(r) ==
    /\ pending[r].op = "register"
    /\ nextId < MaxUsers
    /\ req' = [op |-> "register", body |-> pending[r].body, r |-> r]
    /\ pending' = [pending EXCEPT ![r] = Idle]
    /\ InFlightFrame
    /\ LET id == nextId + 1
           user == NewUser(id, pending[r].body.username, pending[r].body.email,
                           Hash(pending[r].body.password), NullId)
           tokens == generateTokens(id, user.username, now)
       IN  IF DuplicateKey(user)
           THEN /\ res' = Fail(DuplicateKeyError(duplicateField(user)))
                /\ UNCHANGED <<users, nextId>>
           ELSE /\ users' = (id :> [user EXCEPT !.refreshToken = tokens.refreshToken])
                                @@ users
                /\ nextId' = id
                /\ res' = Answer(201, "User registered successfully", tokens)

\* The paths of a document that user.save() writes: the ones assigned to.
\* Mutant: the save also clears the password path.
applyUpdate_clearPassword(doc, set) ==
    [f \in DOMAIN doc |-> IF f \in DOMAIN set THEN set[f]
                          ELSE IF f = "password" THEN NoPassword ELSE doc[f]]

applyUpdate(doc, set) ==
    [f \in DOMAIN doc |-> IF f \in DOMAIN set THEN set[f] ELSE doc[f]]

\* The paths PUT /users/:id assigns to: a username other than the current
\* one, a bio, the path of an uploaded image.
updateSet(user, body, file) ==
    LET name == IF Has(body, "username") /\ body.username # user.username
                THEN [username |-> body.username] ELSE Absent
        bio == IF Has(body, "bio") THEN [bio |-> body.bio] ELSE Absent
        image == IF file # NullImage THEN [profileImage |-> file] ELSE Absent
    IN  [f \in DOMAIN name \cup DOMAIN bio \cup DOMAIN image |->
            IF f \in DOMAIN name THEN name[f]
            ELSE IF f \in DOMAIN bio THEN bio[f] ELSE image[f]]

\* Mutant: the handler does not compare :id with the caller.
notOwner_unchecked(id, caller) == FALSE

\* req.params.id !== req.user!._id.toString()
notOwner(id, caller) == id # caller

\* PUT /users/:id behind authenticate, which resolved the caller, up to
\* the answer of the username lookup.
UpdateCheck(r, caller, id, body, file) ==
    /\ pending[r] = Idle
    /\ caller \in DOMAIN users
    /\ req' = [op |-> "update", caller |-> caller, id |-> id, body |-> body,
               file |-> file, r |-> r]
    /\ UNCHANGED <<users, nextId>>
    /\ InFlightFrame
    /\ IF notOwner(id, caller)
       THEN /\ res' = Fail(ApiError("Not authorized to update this profile", 403))
            /\ UNCHANGED pending
       ELSE IF updateUserSchema(body) # <<>>
       THEN /\ res' = Fail(ApiError(updateUserSchema(body)[1], 400))
            /\ UNCHANGED pending
       ELSE IF findById(id) = {}
       THEN /\ res' = Fail(ApiError("User not found", 404))
            /\ UNCHANGED pending
       ELSE LET user == CHOOSE u \in findById(id) : TRUE
            IN  IF /\ Has(body, "username")
                   /\ body.username # user.username
                   /\ findByUsername(body.username) # {}
                THEN /\ res' = Fail(ApiError("Username already taken", 409))
                     /\ UNCHANGED pending
                ELSE /\ res' = NoAnswer
                     /\ pending' = [pending EXCEPT ![r] =
                            [op |-> "update", id |-> id, body |-> body, file |-> file,
                             set |-> updateSet(user, body, file)]]

\* PUT /users/:id from user.save() on.
UpdateSave(r) ==
    /\ pending[r].op = "update"
    /\ pending[r].id \in DOMAIN users
    /\ req' = [op |-> "update", caller |-> pending[r].id, id |-> pending[r].id,
               body |-> pending[r].body, file |-> pending[r].file, r |-> r]
    /\ pending' = [pending EXCEPT ![r] = Idle]
    /\ UNCHANGED nextId
    /\ InFlightFrame
    /\ LET user == applyUpdate(users[pending[r].id], pending[r].set)
       IN  IF DuplicateKey(user)
           THEN /\ res' = Fail(DuplicateKeyError(duplicateField(user)))
                /\ UNCHANGED users
           ELSE /\ users' = [users EXCEPT ![user._id] = user]
                /\ res' = Answer(200, "Profile updated successfully", NoTokens)

\* The verify callback up to the answers of its lookups.
GoogleCheck(r, profile) ==
    /\ pending[r] = Idle
    /\ req' = [op |-> "google", profile |-> profile, r |-> r]
    /\ UNCHANGED <<users, nextId>>
    /\ InFlightFrame
    /\ IF findByGoogleId(profile.id) # {}
       THEN /\ res' = Done(CHOOSE u \in findByGoogleId(profile.id) : TRUE)
            /\ UNCHANGED pending
       ELSE /\ res' = NoAnswer
            /\ IF /\ Has(profile, "email") /\ profile.email # EmptyStr
                  /\ findByEmail(profile.email) # {}
               THEN LET user == CHOOSE u \in findByEmail(profile.email) : TRUE
                    IN  pending' = [pending EXCEPT ![r] =
                            [op |-> "link", id |-> user._id, profile |-> profile,
                             set |-> [googleId |-> profile.id]]]
               ELSE pending' = [pending EXCEPT ![r] =
                            [op |-> "create", profile |-> profile,
                             username |-> synthUsername(profile, now),
                             email |-> synthEmail(profile)]]

\* The verify callback from user.save() on, linking or creating.
GoogleSave(r) ==
    /\ pending[r].op \in {"link", "create"}
    /\ req' = [op |-> "google", profile |-> pending[r].profile, r |-> r]
    /\ pending' = [pending EXCEPT ![r] = Idle]
    /\ InFlightFrame
    /\ IF pending[r].op = "link"
       THEN /\ pending[r].id \in DOMAIN users
            /\ UNCHANGED nextId
            /\ LET user == applyUpdate(users[pending[r].id], pending[r].set)
               IN  IF DuplicateKey(user)
                   THEN /\ res' = Fail(DuplicateKeyError(duplicateField(user)))
                        /\ UNCHANGED users
                   ELSE /\ users' = [users EXCEPT ![user._id] = user]
                        /\ res' = Done(user)
       ELSE /\ nextId < MaxUsers
            /\ LET user == NewUser(nextId + 1, pending[r].username, pending[r].email,
                                   NoPassword, pending[r].profile.id)
               IN  IF DuplicateKey(user)
                   THEN /\ res' = Fail(DuplicateKeyError(duplicateField(user)))
                        /\ UNCHANGED <<users, nextId>>
                   ELSE /\ users' = (user._id :> user) @@ users
                        /\ nextId' = user._id
                        /\ res' = Done(user)

\* POST /auth/login up to the call of user.save(): the tokens are signed
\* before the write is handed to the store.
LoginCheck(r, body) ==
    /\ pending[r] = Idle
    /\ req' = [op |-> "login", body |-> body, r |-> r]
    /\ UNCHANGED <<users, nextId>>
    /\ InFlightFrame
    /\ IF loginSchema(body) # <<>>
       THEN /\ res' = Fail(ApiError(loginSchema(body)[1], 400))
            /\ UNCHANGED pending
       ELSE IF \/ findByEmail(body.email) = {}
               \/ \A user \in findByEmail(body.email) : user.password = NoPassword
       THEN /\ res' = Fail(loginNoUserError)
            /\ UNCHANGED pending
       ELSE LET user == CHOOSE u \in findByEmail(body.email) : TRUE
            IN  IF ~comparePassword(user, body.password)
                THEN /\ res' = Fail(loginMismatchError)
                     /\ UNCHANGED pending
                ELSE /\ res' = NoAnswer
                     /\ pending' = [pending EXCEPT ![r] =
                            [op |-> "login", id |-> user._id, body |-> body,
                             tokens |-> generateTokens(user._id, user.username, now),
                             other |-> NullToken]]

\* The write of a login reaches the store and the login answers.  The
\* logins of the same user still in flight are marked with the refresh
\* token this one returned (history).
LoginSave(r) ==
    /\ pending[r].op = "login"
    /\ pending[r].id \in DOMAIN users
    /\ req' = [op |-> "login", body |-> pending[r].body, r |-> r,
               other |-> pending[r].other]
    /\ users' = [users EXCEPT ![pending[r].id] =
                    applyUpdate(@, [refreshToken |-> pending[r].tokens.refreshToken])]
    /\ res' = Answer(200, "Login successful", pending[r].tokens)
    /\ pending' = [q \in Requests |->
                      IF q = r THEN Idle
                      ELSE IF pending[q].op = "login" /\ pending[q].id = pending[r].id
                      THEN [pending[q] EXCEPT !.other = pending[r].tokens.refreshToken]
                      ELSE pending[q]]
    /\ UNCHANGED <<nextId, now, config, history, limiter, served, posts,
                   OPENAI_API_KEY, apiCalls, storeOps, content>>

\* ------------------------------------------------------------- environment
\* A user document is removed from the collection by the store's operator.
RemoveUser(id) ==
    /\ id \in DOMAIN users
    /\ users' = [i \in DOMAIN users \ {id} |-> users[i]]
    /\ req' = [op |-> "remove", id |-> id]
    /\ res' = [status |-> 0]
    /\ UNCHANGED <<nextId, now, config, history>>

\* -------------------------------------------------------------- requests
RegisterBodies ==
    {[username |-> Alice, email |-> EmailA, password |-> Secret1],
     [username |-> Alice, email |-> EmailB, password |-> Secret1],
     [username |-> ShortName, email |-> EmailB, password |-> Secret1],
     [email |-> EmailA, password |-> Secret1]}

LoginBodies ==
    {[email |-> EmailA, password |-> Secret1],
     [email |-> EmailA, password |-> Wrong],
     [email |-> EmailB, password |-> Secret1],
     [email |-> BadEmail, password |-> Secret1],
     [email |-> EmailA, password |-> EmptyStr],
     [email |-> EmailA]}

RefreshBodies == {[refreshToken |-> t] : t \in Presentable} \cup {Absent}

AuthHeaders ==
    {<<RawStr(Bearer), t>> : t \in Presentable}
    \cup {<<RawStr(Basic), t>> : t \in IssuedAccess}
    \cup {<<RawStr(Bearer), t, RawStr(Garbage)>> : t \in IssuedAccess}
    \cup {<<RawStr(Bearer)>>}

Headers == {[authorization |-> h] : h \in AuthHeaders} \cup {Absent}

\* The headers of clients that follow the scheme, or send none.
BearerHeaders ==
    {[authorization |-> <<RawStr(Bearer), t>>] : t \in Presentable} \cup {Absent}

Profiles ==
    {[id |-> "g1", displayName |-> <<"B", "o", "b">>, email |-> EmailB],
     [id |-> "g2", displayName |-> <<"a", " ", " ", "l">>]}

StoreFaults == {"none", "find", "save"}
LookupFaults == {"none", "find"}

\* ---------------------------------------------------------- specifications
\* The session life cycle of an account: tokens issued, presented, rotated
\* and revoked as the clock advances.
Next ==
    \/ Tick /\ UNCHANGED extra
    \/ \E body \in RegisterBodies : Register(body, "none") /\ UNCHANGED extra
    \/ \E body \in LoginBodies, fault \in StoreFaults : Login(body, fault) /\ UNCHANGED extra
    \/ \E body \in RefreshBodies, fault \in StoreFaults : Refresh(body, fault) /\ UNCHANGED extra
    \/ \E headers \in BearerHeaders, fault \in StoreFaults : Logout(headers, fault) /\ UNCHANGED extra
    \/ \E headers \in BearerHeaders : Authenticate(headers, "none") /\ UNCHANGED extra

Spec == Init /\ [][Next]_vars

\* The two middleware variants over a store whose documents come and go.
NextAuth ==
    \/ Tick /\ UNCHANGED extra
    \/ \E body \in RegisterBodies : Register(body, "none") /\ UNCHANGED extra
    \/ \E body \in LoginBodies : Login(body, "none") /\ UNCHANGED extra
    \/ \E headers \in Headers, fault \in LookupFaults : Authenticate(headers, fault) /\ UNCHANGED extra
    \/ \E headers \in Headers, fault \in LookupFaults : OptionalAuth(headers, fault) /\ UNCHANGED extra
    \/ \E id \in UserIds : RemoveUser(id) /\ UNCHANGED extra

SpecAuth == Init /\ [][NextAuth]_vars

\* Accounts made by registration and by external identity, and logins to them.
NextAccounts ==
    \/ Tick /\ UNCHANGED extra
    \/ \E body \in RegisterBodies, fault \in Faults : Register(body, fault) /\ UNCHANGED extra
    \/ \E body \in LoginBodies, fault \in StoreFaults : Login(body, fault) /\ UNCHANGED extra
    \/ \E profile \in Profiles, fault \in StoreFaults : GoogleVerify(profile, fault) /\ UNCHANGED extra

SpecAccounts == Init /\ [][NextAccounts]_vars

\* Registrations, profile updates and external-identity sign-ins whose
\* steps interleave, under the default configuration.
InitInFlight ==
    /\ users = <<>>
    /\ nextId = 0
    /\ now = 0
    /\ JWT_SECRET = OrDefault(Unset, "default-secret-change-me")
    /\ JWT_REFRESH_SECRET = OrDefault(Unset, "default-refresh-secret")
    /\ JWT_EXPIRES_IN = 1
    /\ JWT_REFRESH_EXPIRES_IN = 2
    /\ last = [u \in UserIds |-> NullToken]
    /\ older = [u \in UserIds |-> {}]
    /\ consumed = {}
    /\ loggedOut = {}
    /\ req = [op |-> "init"]
    /\ res = [status |-> 0]
    /\ InitExtra

InFlightRegisterBodies ==
    {[username |-> Alice, email |-> EmailA, password |-> Secret1],
     [username |-> Alice, email |-> EmailB, password |-> Secret1],
     [username |-> Bob, email |-> EmailA, password |-> Secret1]}

RenameBodies == {[username |-> Alice], [username |-> Bob]}

LongBio == [i \in 1..(BioMax + 1) |-> "x"]

UpdateBodies ==
    {[username |-> Alice], [username |-> Bob], [username |-> ShortName],
     [bio |-> <<"h", "i">>], [username |-> Bob, bio |-> <<"h", "i">>],
     [bio |-> LongBio], Absent}

Upload == [path |-> "/uploads/a.png"]
Files == {NullImage, Upload}

InFlightProfiles ==
    {[id |-> "g1", displayName |-> <<"A", "l", "i">>],
     [id |-> "g2", displayName |-> <<"B", "o", "b">>, email |-> EmailA]}

NextInFlight ==
    \/ \E r \in Requests, body \in InFlightRegisterBodies : RegisterCheck(r, body)
    \/ \E r \in Requests : RegisterSave(r)
    \/ \E r \in Requests, caller \in UserIds, body \in RenameBodies :
          UpdateCheck(r, caller, caller, body, NullImage)
    \/ \E r \in Requests : UpdateSave(r)
    \/ \E r \in Requests, profile \in InFlightProfiles : GoogleCheck(r, profile)
    \/ \E r \in Requests : GoogleSave(r)

SpecInFlight == InitInFlight /\ [][NextInFlight]_vars

\* Logins of one registered user whose steps interleave, as the clock runs.
NextLogins ==
    \/ Tick /\ UNCHANGED extra
    \/ Register([username |-> Alice, email |-> EmailA, password |-> Secret1], "none")
           /\ UNCHANGED extra
    \/ \E r \in Requests, body \in LoginBodies : LoginCheck(r, body)
    \/ \E r \in Requests : LoginSave(r)

SpecLogins == InitInFlight /\ [][NextLogins]_vars

\* Profile updates, one request at a time, on a store that holds a
\* registered account and one made by external identity.
Carl == <<"c", "a", "r", "l">>

TwoAccounts ==
    /\ users = (1 :> [NewUser(1, Alice, EmailA, Hash(Secret1), NullId)
                         EXCEPT !.refreshToken = sign(1, Alice, "default-refresh-secret", 2, 0)])
               @@ (2 :> NewUser(2, Bob, EmailB, NoPassword, "g1"))
    /\ nextId = 2
    /\ now = 0
    /\ JWT_SECRET = OrDefault(Unset, "default-secret-change-me")
    /\ JWT_REFRESH_SECRET = OrDefault(Unset, "default-refresh-secret")
    /\ JWT_EXPIRES_IN = 1
    /\ JWT_REFRESH_EXPIRES_IN = 2
    /\ last = [u \in UserIds |-> IF u = 1 THEN sign(1, Alice, "default-refresh-secret", 2, 0)
                                 ELSE NullToken]
    /\ older = [u \in UserIds |-> {}]
    /\ consumed = {}
    /\ loggedOut = {}
    /\ req = [op |-> "init"]
    /\ res = [status |-> 0]

InitProfile ==
    /\ TwoAccounts
    /\ InitExtra

ProfileBodies == UpdateBodies \cup {[username |-> Carl], [username |-> Carl, bio |-> EmptyStr]}

NextProfile ==
    \/ \E caller \in UserIds, id \in UserIds \cup {3}, body \in ProfileBodies, file \in Files :
          UpdateCheck(1, caller, id, body, file)
    \/ UpdateSave(1)

SpecProfile == InitProfile /\ [][NextProfile]_vars

\* ------------------------------------------------- the AI explanation route
\* aiExplanation: { type: String, default: null }
NullText == "null"

\* A JavaScript string used as a condition.
truthy(text) == text # NullText /\ text # ""

\* rateLimit({ windowMs: 60 * 60 * 1000, max: 10, ... })
windowMs == 60 * 60 * 1000
max == 10

\* Date.now(), in milliseconds.
DateNow == now * 1000

\* The entry the limiter's memory store holds for a key at this instant: a
\* fresh window when the key has none or its window has run out.
currentEntry(key) ==
    IF limiter[key] = NoEntry \/ limiter[key].resetTime <= DateNow
    THEN [hits |-> 0, resetTime |-> DateNow + windowMs]
    ELSE limiter[key]

\* The store counts the request.
increment(key) == [currentEntry(key) EXCEPT !.hits = @ + 1]

AiAnswer(status, message, explanation, cached) ==
    [status |-> status, message |-> message,
     explanation |-> explanation, cached |-> cached]

\* What the third-party API may do with one call.
ApiOutcomes ==
    {[kind |-> "throw", content |-> NullText],
     [kind |-> "notok", content |-> NullText],
     [kind |-> "ok", content |-> NullText],
     [kind |-> "ok", content |-> ""],
     [kind |-> "ok", content |-> "explanation 1"],
     [kind |-> "ok", content |-> "explanation 2"]}

NoCall == [kind |-> "throw", content |-> NullText]

\* getCodeExplanation ends with a throw after `calls` calls to the API.
Thrown(message, calls) ==
    [error |-> message, explanation |-> NullText, cached |-> FALSE,
     calls |-> calls, posts |-> posts]

\* Mutant: the stored explanation is not looked at.
useCache_never(post, forceRefresh) == FALSE

\* post.aiExplanation && !forceRefresh
useCache(post, forceRefresh) == truthy(post.aiExplanation) /\ ~forceRefresh

\* data.choices[0]?.message?.content || 'Unable to generate explanation'
explanationOf(api) ==
    IF truthy(api.content) THEN api.content ELSE "Unable to generate explanation"

\* What of the post the prompt sent to the API is made of.
promptOf(post) == [code |-> post.code, language |-> post.language]

\* getCodeExplanation(postId, forceRefresh), the API doing `api` if it is
\* called and the store doing `fault` on post.save(): the result or the
\* error, the number of calls made to the API, and the posts afterwards.
getCodeExplanation(postId, forceRefresh, api, fault) ==
    IF postId \notin DOMAIN posts THEN Thrown("Post not found", 0)
    ELSE IF useCache(posts[postId], forceRefresh)
    THEN [error |-> "", explanation |-> posts[postId].aiExplanation,
          cached |-> TRUE, calls |-> 0, posts |-> posts]
    ELSE IF ~truthy(OrDefault(OPENAI_API_KEY, ""))
    THEN Thrown("AI service not configured", 0)
    ELSE IF api.kind = "throw" THEN Thrown("fetch failed", 1)
    ELSE IF api.kind = "notok" THEN Thrown("AI service unavailable", 1)
    ELSE IF fault = "save" THEN Thrown("MongoError", 1)
    ELSE [error |-> "", explanation |-> explanationOf(api), cached |-> FALSE,
          calls |-> 1,
          posts |-> [posts EXCEPT ![postId].aiExplanation = explanationOf(api)]]

\* POST /api/ai/explain/:postId behind authenticate, which resolved the
\* caller: the limiter counts the request under the caller's id and answers
\* 429 itself above max; otherwise the handler runs.
Explain(caller, postId, forceRefresh, api, fault) ==
    /\ caller \in DOMAIN users
    /\ currentEntry(caller).hits <= max
    /\ req' = [op |-> "explain", caller |-> caller, postId |-> postId,
               forceRefresh |-> forceRefresh, api |-> api, fault |-> fault]
    /\ limiter' = [limiter EXCEPT ![caller] = increment(caller)]
    /\ IF increment(caller).hits > max
       THEN /\ res' = AiAnswer(429, "Too many AI requests. Please try again later.",
                               NullText, FALSE)
            /\ UNCHANGED <<served, posts, apiCalls, explained>>
       ELSE LET out == getCodeExplanation(postId, forceRefresh, api, fault) IN
            /\ served' = [served EXCEPT ![caller] = Append(@, DateNow)]
            /\ posts' = out.posts
            /\ apiCalls' = out.calls
            /\ explained' = IF out.error = "" /\ ~out.cached
                            THEN (postId :> promptOf(posts[postId])) @@ explained
                            ELSE explained
            /\ res' = IF out.error = ""
                      THEN AiAnswer(200, "", out.explanation, out.cached)
                      ELSE AiAnswer(errorHandler(ApiError(out.error, 400)).status,
                                    errorHandler(ApiError(out.error, 400)).message,
                                    NullText, FALSE)
    /\ UNCHANGED <<users, nextId, now, config, history,
                   pending, OPENAI_API_KEY, storeOps, likes, comments, client>>

\* The clock of the limiter specification moves in steps of half an hour.
HalfHour == 1800
AiSteps == 2

\* served keeps the instants an hour that includes the present can hold.
StillWithin(t) == t + windowMs > (now + HalfHour) * 1000

AiTick ==
    /\ now < AiSteps * HalfHour
    /\ now' = now + HalfHour
    /\ req' = [op |-> "tick"]
    /\ served' = [u \in UserIds |-> SelectSeq(served[u], StillWithin)]
    /\ UNCHANGED <<users, nextId, config, history, res,
                   pending, limiter, posts, OPENAI_API_KEY, apiCalls, storeOps, content>>

\* A post nobody asked an explanation for.
Code1 == <<"x", "=", "1">>
Code2 == <<"x", "=", "2">>
Js == <<"j", "s">>

\* new Post({ userId, title, code, language, ... }) with the schema defaults.
CreatedPost(userId, code, language) ==
    [userId |-> userId, code |-> code, language |-> language,
     likesCount |-> 0, commentsCount |-> 0, aiExplanation |-> NullText]

\* A post of user 1 that nobody has liked, commented or asked about.
NewPost == CreatedPost(1, Code1, Js)

\* Two accounts; post 1 has an explanation stored by an earlier run of the
\* server, post 2 has none; this run has no API key.
InitLimiter ==
    /\ TwoAccounts
    /\ pending = [r \in Requests |-> Idle]
    /\ limiter = [u \in UserIds |-> NoEntry]
    /\ served = [u \in UserIds |-> <<>>]
    /\ posts = (1 :> [NewPost EXCEPT !.aiExplanation = "explanation 0"])
               @@ (2 :> NewPost)
    /\ OPENAI_API_KEY = Unset
    /\ apiCalls = 0
    /\ storeOps = <<>>
    /\ InitContent

NextLimiter ==
    \/ AiTick
    \/ \E caller \in UserIds, forceRefresh \in BOOLEAN :
          Explain(caller, 1, forceRefresh, NoCall, "none")

SpecLimiter == InitLimiter /\ [][NextLimiter]_vars

\* One caller over the posts of InitLimiter and a post id the store does not
\* hold, with or without an API key in the environment.
PostIds == {1, 2, 3}
ApiKeys == {Unset, "", "sk-key"}

InitExplain ==
    /\ TwoAccounts
    /\ pending = [r \in Requests |-> Idle]
    /\ limiter = [u \in UserIds |-> NoEntry]
    /\ served = [u \in UserIds |-> <<>>]
    /\ posts = (1 :> [NewPost EXCEPT !.aiExplanation = "explanation 0"])
               @@ (2 :> NewPost)
    /\ OPENAI_API_KEY \in ApiKeys
    /\ apiCalls = 0
    /\ storeOps = <<>>
    /\ InitContent

NextExplain ==
    \E postId \in PostIds, forceRefresh \in BOOLEAN,
       api \in ApiOutcomes, fault \in {"none", "save"} :
          Explain(1, postId, forceRefresh, api, fault)

SpecExplain == InitExplain /\ [][NextExplain]_vars

\* The two middleware variants with their store operations recorded, over
\* accounts that are registered, logged in to and removed.
NextLookups ==
    \/ Tick /\ UNCHANGED extra
    \/ \E body \in InFlightRegisterBodies : Register(body, "none") /\ UNCHANGED extra
    \/ \E id \in UserIds : RemoveUser(id) /\ UNCHANGED extra
    \/ \E headers \in Headers, fault \in LookupFaults :
          /\ Authenticate(headers, fault)
          /\ storeOps' = authenticateStoreOps(headers)
          /\ LookupFrame
    \/ \E headers \in Headers, fault \in LookupFaults :
          /\ OptionalAuth(headers, fault)
          /\ storeOps' = optionalAuthStoreOps(headers)
          /\ LookupFrame

SpecLookups == InitInFlight /\ [][NextLookups]_vars

\* Every operation that writes a user document, over accounts made by
\* registration and by Google sign-in, within one second of the clock.
AccountBody == [username |-> Alice, email |-> EmailA, password |-> Secret1]

AccountUpdateBodies == {[username |-> Carl], [bio |-> <<"h", "i">>]}

NextUsers ==
    \/ Register(AccountBody, "none") /\ UNCHANGED extra
    \/ Login([email |-> AccountBody.email, password |-> AccountBody.password], "none")
          /\ UNCHANGED extra
    \/ \E body \in RefreshBodies : Refresh(body, "none") /\ UNCHANGED extra
    \/ \E headers \in BearerHeaders : Logout(headers, "none") /\ UNCHANGED extra
    \/ \E profile \in InFlightProfiles : GoogleVerify(profile, "none") /\ UNCHANGED extra
    \/ \E caller \in UserIds, body \in AccountUpdateBodies :
          UpdateCheck(1, caller, caller, body, NullImage)
    \/ UpdateSave(1)

SpecUsers == InitInFlight /\ [][NextUsers]_vars

\* ------------------------------------------------ posts, likes and comments
\* The documents the store may come to hold, users included.
MaxDocs == 5

\* The variables the post, like and comment handlers leave alone.
ContentFrame ==
    UNCHANGED <<users, now, config, history, limiter, served, OPENAI_API_KEY,
                apiCalls, storeOps, explained, client>>

\* A request may start while the documents in the store and those the
\* requests in flight may still create stay within MaxDocs.
Room == nextId + Cardinality({q \in Requests : pending[q] # Idle}) < MaxDocs

\* The collection without the documents of the given ids.
Without(collection, ids) == [i \in DOMAIN collection \ ids |-> collection[i]]

\* Like.findOne({ postId, userId }): the ids of the documents that match.
findLike(postId, userId) ==
    {i \in DOMAIN likes : likes[i].postId = postId /\ likes[i].userId = userId}

\* Mutant: the Like collection has no unique index.
DuplicateLike_noIndex(postId, userId) == FALSE

\* likeSchema.index({ postId: 1, userId: 1 }, { unique: true }): an insert
\* for a pair the collection already holds is rejected.
DuplicateLike(postId, userId) == findLike(postId, userId) # {}

\* Math.max(0, n)
Max0(n) == IF n < 0 THEN 0 ELSE n

LikeAnswer(message, isLiked, likesCount) ==
    [status |-> 200, message |-> message, isLiked |-> isLiked,
     likesCount |-> likesCount]

\* POST /posts/:postId/like behind authenticate, which resolved the caller,
\* up to Post.findById: the handler holds the post as it read it.
LikeRead(r, caller, postId) ==
    /\ pending[r] = Idle
    /\ Room
    /\ caller \in DOMAIN users
    /\ req' = [op |-> "like", caller |-> caller, postId |-> postId, r |-> r]
    /\ IF postId \notin DOMAIN posts
       THEN /\ res' = Fail(ApiError("Post not found", 404))
            /\ UNCHANGED pending
       ELSE /\ res' = NoAnswer
            /\ pending' = [pending EXCEPT ![r] =
                   [op |-> "like", step |-> "read", userId |-> caller,
                    postId |-> postId, post |-> posts[postId],
                    existing |-> {}, isLiked |-> FALSE]]
    /\ UNCHANGED <<posts, likes, comments, nextId>>
    /\ ContentFrame

\* Like.findOne({ postId, userId })
LikeFind(r) ==
    /\ pending[r].op = "like"
    /\ pending[r].step = "read"
    /\ req' = [op |-> "like", caller |-> pending[r].userId,
               postId |-> pending[r].postId, r |-> r]
    /\ res' = NoAnswer
    /\ LET found == findLike(pending[r].postId, pending[r].userId) IN
       \E existing \in IF found = {} THEN {{}} ELSE {{i} : i \in found} :
           pending' = [pending EXCEPT ![r].step = "found", ![r].existing = existing]
    /\ UNCHANGED <<posts, likes, comments, nextId>>
    /\ ContentFrame

\* Like.findByIdAndDelete(existingLike._id), or like.save() of a new Like;
\* then the count is computed on the post the handler holds.
LikeWrite(r) ==
    /\ pending[r].op = "like"
    /\ pending[r].step = "found"
    /\ req' = [op |-> "like", caller |-> pending[r].userId,
               postId |-> pending[r].postId, r |-> r]
    /\ IF pending[r].existing # {}
       THEN /\ likes' = Without(likes, pending[r].existing)
            /\ pending' = [pending EXCEPT ![r].step = "written",
                              ![r].post.likesCount = Max0(@ - 1)]
            /\ res' = NoAnswer
            /\ UNCHANGED nextId
       ELSE IF DuplicateLike(pending[r].postId, pending[r].userId)
       THEN /\ res' = Fail(DuplicateKeyError("postId_userId"))
            /\ pending' = [pending EXCEPT ![r] = Idle]
            /\ UNCHANGED <<likes, nextId>>
       ELSE /\ likes' = likes @@ (nextId + 1 :>
                           [postId |-> pending[r].postId, userId |-> pending[r].userId])
            /\ nextId' = nextId + 1
            /\ pending' = [pending EXCEPT ![r].step = "written",
                              ![r].post.likesCount = @ + 1,
                              ![r].isLiked = TRUE]
            /\ res' = NoAnswer
    /\ UNCHANGED <<posts, comments>>
    /\ ContentFrame

\* post.save() writes the path the handler assigned, likesCount, and the
\* handler answers; the save of a post that is gone is rejected.
LikeSave(r) ==
    /\ pending[r].op = "like"
    /\ pending[r].step = "written"
    /\ req' = [op |-> "like", caller |-> pending[r].userId,
               postId |-> pending[r].postId, r |-> r]
    /\ pending' = [pending EXCEPT ![r] = Idle]
    /\ IF pending[r].postId \notin DOMAIN posts
       THEN /\ res' = Fail(ThrownError("DocumentNotFoundError"))
            /\ UNCHANGED posts
       ELSE /\ posts' = [posts EXCEPT ![pending[r].postId].likesCount =
                            pending[r].post.likesCount]
            /\ res' = LikeAnswer(IF pending[r].isLiked THEN "Post liked"
                                 ELSE "Post unliked",
                                 pending[r].isLiked, pending[r].post.likesCount)
    /\ UNCHANGED <<likes, comments, nextId>>
    /\ ContentFrame

\* Mutant: the handlers do not compare the author with the caller.
notAuthor_unchecked(doc, caller) == FALSE

\* post.userId.toString() !== req.user!._id.toString(), and the same test on
\* a comment.
notAuthor(doc, caller) == doc.userId # caller

\* The paths PUT /posts/:id assigns to.
postSet(body) ==
    LET code == IF Has(body, "code") /\ body.code # EmptyStr
                THEN [code |-> body.code] ELSE Absent
        language == IF Has(body, "language") /\ body.language # EmptyStr
                    THEN [language |-> toLowerCase(body.language)] ELSE Absent
    IN  [f \in DOMAIN code \cup DOMAIN language |->
            IF f \in DOMAIN code THEN code[f] ELSE language[f]]

\* PUT /posts/:id behind authenticate, up to the assignments.
PostUpdateCheck(r, caller, id, body) ==
    /\ pending[r] = Idle
    /\ caller \in DOMAIN users
    /\ req' = [op |-> "updatePost", caller |-> caller, id |-> id, r |-> r]
    /\ IF id \notin DOMAIN posts
       THEN /\ res' = Fail(ApiError("Post not found", 404))
            /\ UNCHANGED pending
       ELSE IF notAuthor(posts[id], caller)
       THEN /\ res' = Fail(ApiError("Not authorized to update this post", 403))
            /\ UNCHANGED pending
       ELSE IF updatePostSchema(body) # <<>>
       THEN /\ res' = Fail(ApiError(updatePostSchema(body)[1], 400))
            /\ UNCHANGED pending
       ELSE /\ res' = NoAnswer
            /\ pending' = [pending EXCEPT ![r] =
                   [op |-> "updatePost", step |-> "checked", userId |-> caller,
                    id |-> id, set |-> postSet(body)]]
    /\ UNCHANGED <<posts, likes, comments, nextId>>
    /\ ContentFrame

\* post.save() writes the paths the handler assigned, and the handler
\* answers; the save of a post that is gone is rejected.
PostUpdateSave(r) ==
    /\ pending[r].op = "updatePost"
    /\ pending[r].step = "checked"
    /\ req' = [op |-> "updatePost", caller |-> pending[r].userId,
               id |-> pending[r].id, r |-> r]
    /\ pending' = [pending EXCEPT ![r] = Idle]
    /\ IF pending[r].id \notin DOMAIN posts
       THEN /\ res' = Fail(ThrownError("DocumentNotFoundError"))
            /\ UNCHANGED posts
       ELSE /\ posts' = [posts EXCEPT ![pending[r].id] = applyUpdate(@, pending[r].set)]
            /\ res' = Answer(200, "Post updated successfully", NoTokens)
    /\ UNCHANGED <<likes, comments, nextId>>
    /\ ContentFrame

\* DELETE /posts/:id behind authenticate, up to Post.findById and the test
\* of the author.
PostDeleteCheck(r, caller, id) ==
    /\ pending[r] = Idle
    /\ caller \in DOMAIN users
    /\ req' = [op |-> "deletePost", caller |-> caller, id |-> id, r |-> r]
    /\ IF id \notin DOMAIN posts
       THEN /\ res' = Fail(ApiError("Post not found", 404))
            /\ UNCHANGED pending
       ELSE IF notAuthor(posts[id], caller)
       THEN /\ res' = Fail(ApiError("Not authorized to delete this post", 403))
            /\ UNCHANGED pending
       ELSE /\ res' = NoAnswer
            /\ pending' = [pending EXCEPT ![r] =
                   [op |-> "deletePost", step |-> "checked", userId |-> caller,
                    id |-> id]]
    /\ UNCHANGED <<posts, likes, comments, nextId>>
    /\ ContentFrame

\* Post.findByIdAndDelete(req.params.id)
PostDeleteRemove(r) ==
    /\ pending[r].op = "deletePost"
    /\ pending[r].step = "checked"
    /\ req' = [op |-> "deletePost", caller |-> pending[r].userId,
               id |-> pending[r].id, r |-> r]
    /\ res' = NoAnswer
    /\ posts' = Without(posts, {pending[r].id})
    /\ pending' = [pending EXCEPT ![r].step = "removed"]
    /\ UNCHANGED <<likes, comments, nextId>>
    /\ ContentFrame

\* Like.deleteMany({ postId: req.params.id }), and the answer.
PostDeleteLikes(r) ==
    /\ pending[r].op = "deletePost"
    /\ pending[r].step = "removed"
    /\ req' = [op |-> "deletePost", caller |-> pending[r].userId,
               id |-> pending[r].id, r |-> r]
    /\ res' = Answer(200, "Post deleted successfully", NoTokens)
    /\ likes' = Without(likes, {i \in DOMAIN likes : likes[i].postId = pending[r].id})
    /\ pending' = [pending EXCEPT ![r] = Idle]
    /\ UNCHANGED <<posts, comments, nextId>>
    /\ ContentFrame

\* Two accounts and one post of user 1, nobody having liked it yet.
InitPosts ==
    /\ TwoAccounts
    /\ pending = [r \in Requests |-> Idle]
    /\ limiter = [u \in UserIds |-> NoEntry]
    /\ served = [u \in UserIds |-> <<>>]
    /\ posts = (1 :> CreatedPost(1, Code1, Js))
    /\ OPENAI_API_KEY = Unset
    /\ apiCalls = 0
    /\ storeOps = <<>>
    /\ InitContent

\* Like requests of both users and the author's deletion of the post,
\* interleaved at their awaits.
NextLikes ==
    \/ \E r \in Requests, caller \in UserIds, postId \in {1, 2} :
          LikeRead(r, caller, postId)
    \/ \E r \in Requests : LikeFind(r)
    \/ \E r \in Requests : LikeWrite(r)
    \/ \E r \in Requests : LikeSave(r)
    \/ \E r \in Requests, caller \in UserIds : PostDeleteCheck(r, caller, 1)
    \/ \E r \in Requests : PostDeleteRemove(r)
    \/ \E r \in Requests : PostDeleteLikes(r)

SpecLikes == InitPosts /\ [][NextLikes]_vars

\* POST /posts/:postId/comments behind authenticate, up to Post.findById:
\* the handler holds the post as it read it.
CommentAddRead(r, caller, postId, body) ==
    /\ pending[r] = Idle
    /\ Room
    /\ caller \in DOMAIN users
    /\ req' = [op |-> "addComment", caller |-> caller, postId |-> postId,
               id |-> 0, r |-> r]
    /\ IF commentSchema(body) # <<>>
       THEN /\ res' = Fail(ApiError(commentSchema(body)[1], 400))
            /\ UNCHANGED pending
       ELSE IF postId \notin DOMAIN posts
       THEN /\ res' = Fail(ApiError("Post not found", 404))
            /\ UNCHANGED pending
       ELSE /\ res' = NoAnswer
            /\ pending' = [pending EXCEPT ![r] =
                   [op |-> "addComment", step |-> "read", userId |-> caller,
                    postId |-> postId, post |-> posts[postId]]]
    /\ UNCHANGED <<posts, likes, comments, nextId>>
    /\ ContentFrame

\* comment.save(), then post.commentsCount += 1 on the post the handler holds.
CommentAddInsert(r) ==
    /\ pending[r].op = "addComment"
    /\ pending[r].step = "read"
    /\ req' = [op |-> "addComment", caller |-> pending[r].userId,
               postId |-> pending[r].postId, id |-> nextId + 1, r |-> r]
    /\ res' = NoAnswer
    /\ comments' = comments @@ (nextId + 1 :>
                      [postId |-> pending[r].postId, userId |-> pending[r].userId])
    /\ nextId' = nextId + 1
    /\ pending' = [pending EXCEPT ![r].step = "inserted",
                      ![r].post.commentsCount = @ + 1]
    /\ UNCHANGED <<posts, likes>>
    /\ ContentFrame

\* post.save() writes the path the handler assigned, commentsCount, and the
\* handler answers 201; the save of a post that is gone is rejected.
CommentAddSave(r) ==
    /\ pending[r].op = "addComment"
    /\ pending[r].step = "inserted"
    /\ req' = [op |-> "addComment", caller |-> pending[r].userId,
               postId |-> pending[r].postId, id |-> 0, r |-> r]
    /\ pending' = [pending EXCEPT ![r] = Idle]
    /\ IF pending[r].postId \notin DOMAIN posts
       THEN /\ res' = Fail(ThrownError("DocumentNotFoundError"))
            /\ UNCHANGED posts
       ELSE /\ posts' = [posts EXCEPT ![pending[r].postId].commentsCount =
                            pending[r].post.commentsCount]
            /\ res' = Answer(201, "Comment added successfully", NoTokens)
    /\ UNCHANGED <<likes, comments, nextId>>
    /\ ContentFrame

\* DELETE /comments/:id behind authenticate, up to Comment.findById and the
\* test of the author.
CommentDeleteFind(r, caller, id) ==
    /\ pending[r] = Idle
    /\ caller \in DOMAIN users
    /\ req' = [op |-> "deleteComment", caller |-> caller, id |-> id, r |-> r]
    /\ IF id \notin DOMAIN comments
       THEN /\ res' = Fail(ApiError("Comment not found", 404))
            /\ UNCHANGED pending
       ELSE IF notAuthor(comments[id], caller)
       THEN /\ res' = Fail(ApiError("Not authorized to delete this comment", 403))
            /\ UNCHANGED pending
       ELSE /\ res' = NoAnswer
            /\ pending' = [pending EXCEPT ![r] =
                   [op |-> "deleteComment", step |-> "found", userId |-> caller,
                    id |-> id, postId |-> comments[id].postId]]
    /\ UNCHANGED <<posts, likes, comments, nextId>>
    /\ ContentFrame

\* Comment.findByIdAndDelete(req.params.id)
CommentDeleteRemove(r) ==
    /\ pending[r].op = "deleteComment"
    /\ pending[r].step = "found"
    /\ req' = [op |-> "deleteComment", caller |-> pending[r].userId,
               id |-> pending[r].id, r |-> r]
    /\ res' = NoAnswer
    /\ comments' = Without(comments, {pending[r].id})
    /\ pending' = [pending EXCEPT ![r].step = "removed"]
    /\ UNCHANGED <<posts, likes, nextId>>
    /\ ContentFrame

\* Post.findByIdAndUpdate(comment.postId, { $inc: { commentsCount: -1 } }),
\* and the answer.
CommentDeleteDec(r) ==
    /\ pending[r].op = "deleteComment"
    /\ pending[r].step = "removed"
    /\ req' = [op |-> "deleteComment", caller |-> pending[r].userId,
               id |-> pending[r].id, r |-> r]
    /\ res' = Answer(200, "Comment deleted successfully", NoTokens)
    /\ posts' = IF pending[r].postId \in DOMAIN posts
                THEN [posts EXCEPT ![pending[r].postId].commentsCount = @ - 1]
                ELSE posts
    /\ pending' = [pending EXCEPT ![r] = Idle]
    /\ UNCHANGED <<likes, comments, nextId>>
    /\ ContentFrame

LongComment == [i \in 1..(CommentMax + 1) |-> "x"]

CommentBodies ==
    {[content |-> <<"h", "i">>], [content |-> EmptyStr],
     [content |-> LongComment], Absent}

\* The ids the store hands to the comments made.
CommentIds == (MaxUsers + 1)..MaxDocs

\* Comments added to post 1 and deleted by their authors, interleaved at
\* their awaits.
NextComments ==
    \/ \E r \in Requests, caller \in UserIds, postId \in {1, 2}, body \in CommentBodies :
          CommentAddRead(r, caller, postId, body)
    \/ \E r \in Requests : CommentAddInsert(r)
    \/ \E r \in Requests : CommentAddSave(r)
    \/ \E r \in Requests, caller \in UserIds, id \in CommentIds :
          CommentDeleteFind(r, caller, id)
    \/ \E r \in Requests : CommentDeleteRemove(r)
    \/ \E r \in Requests : CommentDeleteDec(r)

SpecComments == InitPosts /\ [][NextComments]_vars

\* Like requests on post 1 only, each user with one request in flight at
\* most: the requests that overlap are those of different users.
NextTwoLikers ==
    \/ \E caller \in UserIds : LikeRead(caller, caller, 1)
    \/ \E r \in Requests : LikeFind(r)
    \/ \E r \in Requests : LikeWrite(r)
    \/ \E r \in Requests : LikeSave(r)

SpecTwoLikers == InitPosts /\ [][NextTwoLikers]_vars

\* Post 1 is as InitPosts has it: no Like record, likesCount 0.
LikesOfNobody == likes = <<>> /\ posts[1].likesCount = 0

\* Like requests of user 1 on post 1, each started while post 1 has no like
\* and likesCount 0: requests of one user for a post that user has not liked.
NextDoubleLike ==
    \/ \E r \in Requests :
          /\ LikesOfNobody
          /\ LikeRead(r, 1, 1)
    \/ \E r \in Requests : LikeFind(r)
    \/ \E r \in Requests : LikeWrite(r)
    \/ \E r \in Requests : LikeSave(r)

SpecDoubleLike == InitPosts /\ [][NextDoubleLike]_vars

\* Two accounts, a post of user 1 that user 2 liked, and a comment of each
\* user on it.
InitThread ==
    /\ TwoAccounts
    /\ pending = [r \in Requests |-> Idle]
    /\ limiter = [u \in UserIds |-> NoEntry]
    /\ served = [u \in UserIds |-> <<>>]
    /\ posts = (1 :> [CreatedPost(1, Code1, Js) EXCEPT
                         !.likesCount = 1, !.commentsCount = 2])
    /\ likes = (1 :> [postId |-> 1, userId |-> 2])
    /\ comments = (1 :> [postId |-> 1, userId |-> 1])
                  @@ (2 :> [postId |-> 1, userId |-> 2])
    /\ OPENAI_API_KEY = Unset
    /\ apiCalls = 0
    /\ storeOps = <<>>
    /\ explained = <<>>
    /\ client = ClosedPage(NoTokens)

PostBodies ==
    {[code |-> Code2], [language |-> <<"B", "a", "s", "h">>],
     [code |-> EmptyStr], [code |-> Code2, language |-> EmptyStr], Absent}

\* Posts updated and deleted and comments deleted, by either user, two
\* requests at a time.
NextThread ==
    \/ \E r \in Requests, caller \in UserIds, id \in {1, 2}, body \in PostBodies :
          PostUpdateCheck(r, caller, id, body)
    \/ \E r \in Requests : PostUpdateSave(r)
    \/ \E r \in Requests, caller \in UserIds, id \in {1, 2} :
          PostDeleteCheck(r, caller, id)
    \/ \E r \in Requests : PostDeleteRemove(r)
    \/ \E r \in Requests : PostDeleteLikes(r)
    \/ \E r \in Requests, caller \in UserIds, id \in {1, 2, 3} :
          CommentDeleteFind(r, caller, id)
    \/ \E r \in Requests : CommentDeleteRemove(r)
    \/ \E r \in Requests : CommentDeleteDec(r)

SpecThread == InitThread /\ [][NextThread]_vars

\* ----------------------------------------------- refreshes in flight at once
\* POST /auth/refresh up to the answer of findById: the token verified, the
\* stored token compared with the one presented, the new pair generated.
RefreshCheck(r, body) ==
    /\ pending[r] = Idle
    /\ req' = [op |-> "refresh", body |-> body, r |-> r]
    /\ UNCHANGED <<users, nextId>>
    /\ InFlightFrame
    /\ IF ~Has(body, "refreshToken") \/ body.refreshToken = RawStr(EmptyStr)
       THEN /\ res' = refreshCatch(ApiError("Refresh token required", 400))
            /\ UNCHANGED pending
       ELSE IF ~verifyRefreshToken(body.refreshToken, now)
       THEN /\ res' = refreshCatch(ThrownError("JsonWebTokenError"))
            /\ UNCHANGED pending
       ELSE IF \/ findById(body.refreshToken.userId) = {}
               \/ \A user \in findById(body.refreshToken.userId) :
                      user.refreshToken # body.refreshToken
       THEN /\ res' = refreshCatch(ApiError("Invalid refresh token", 401))
            /\ UNCHANGED pending
       ELSE LET user == CHOOSE u \in findById(body.refreshToken.userId) : TRUE
            IN  /\ res' = NoAnswer
                /\ pending' = [pending EXCEPT ![r] =
                       [op |-> "refresh", id |-> user._id, body |-> body,
                        tokens |-> generateTokens(user._id, user.username, now),
                        beaten |-> FALSE]]

\* The write of a refresh reaches the store and the refresh answers.  The
\* refreshes still in flight that presented the same token are marked as
\* beaten to the answer (history).
RefreshSave(r) ==
    /\ pending[r].op = "refresh"
    /\ pending[r].id \in DOMAIN users
    /\ req' = [op |-> "refresh", body |-> pending[r].body, r |-> r,
               beaten |-> pending[r].beaten]
    /\ users' = [users EXCEPT ![pending[r].id].refreshToken =
                    pending[r].tokens.refreshToken]
    /\ res' = Answer(200, "Token refreshed successfully", pending[r].tokens)
    /\ RecordIssue(pending[r].id, pending[r].tokens.refreshToken)
    /\ consumed' = consumed \cup {pending[r].body.refreshToken}
    /\ pending' = [q \in Requests |->
                      IF q = r THEN Idle
                      ELSE IF /\ pending[q].op = "refresh"
                              /\ pending[q].body = pending[r].body
                      THEN [pending[q] EXCEPT !.beaten = TRUE]
                      ELSE pending[q]]
    /\ UNCHANGED <<nextId, now, config, loggedOut, limiter, served, posts,
                   OPENAI_API_KEY, apiCalls, storeOps, content>>

\* The refresh tokens a client of user 1 may hold: the stored one and the
\* ones it replaced.
HeldBodies == {[refreshToken |-> t] : t \in ({last[1]} \cup older[1]) \ {NullToken}}

NextRefreshes ==
    \/ Tick /\ UNCHANGED extra
    \/ \E r \in Requests, body \in HeldBodies \cup {Absent} : RefreshCheck(r, body)
    \/ \E r \in Requests : RefreshSave(r)

SpecRefreshes == InitProfile /\ [][NextRefreshes]_vars


\* ------------------------------------------------ sessions ended by logout
\* Logins and logouts of user 1 as the clock advances, and requests that
\* present the tokens issued so far.
SessionBodies ==
    {[email |-> EmailA, password |-> Secret1], [email |-> EmailA, password |-> Wrong]}

NextSessions ==
    \/ Tick /\ UNCHANGED extra
    \/ \E body \in SessionBodies : Login(body, "none") /\ UNCHANGED extra
    \/ \E headers \in BearerHeaders, fault \in StoreFaults :
          Logout(headers, fault) /\ UNCHANGED extra
    \/ \E headers \in BearerHeaders : Authenticate(headers, "none") /\ UNCHANGED extra

SpecSessions == InitProfile /\ [][NextSessions]_vars


\* --------------------------------------- explanations of posts that change
\* Post 1 of user 1, not yet explained, on a server that holds an API key.
InitRevised ==
    /\ TwoAccounts
    /\ pending = [r \in Requests |-> Idle]
    /\ limiter = [u \in UserIds |-> NoEntry]
    /\ served = [u \in UserIds |-> <<>>]
    /\ posts = (1 :> CreatedPost(1, Code1, Js))
    /\ OPENAI_API_KEY = "sk-key"
    /\ apiCalls = 0
    /\ storeOps = <<>>
    /\ InitContent

RevisedBodies == {[code |-> Code2], [language |-> <<"B", "a", "s", "h">>], Absent}

Generated == {[kind |-> "ok", content |-> "explanation 1"],
              [kind |-> "ok", content |-> "explanation 2"],
              [kind |-> "notok", content |-> NullText]}

\* The author revises the post while its explanation is asked for.
NextRevised ==
    \/ \E forceRefresh \in BOOLEAN, api \in Generated :
          Explain(2, 1, forceRefresh, api, "none")
    \/ \E body \in RevisedBodies : PostUpdateCheck(1, 1, 1, body)
    \/ PostUpdateSave(1)

SpecRevised == InitRevised /\ [][NextRevised]_vars


\* ------------------------------------------------ the session in the browser
\* if (token): what localStorage.getItem returned is neither null nor ''.
present(item) == item # NullToken /\ item # RawStr(EmptyStr)

\* The user object GET /auth/me and the login answer carry.
publicUser(user) ==
    [id |-> user._id, username |-> user.username, email |-> user.email,
     profileImage |-> user.profileImage, bio |-> user.bio]

\* Mutant: the catch block removes the access token only.
removeTokens_accessOnly(page) == [page EXCEPT !.accessToken = NullToken]

\* localStorage.removeItem('accessToken'); localStorage.removeItem('refreshToken')
removeTokens(page) ==
    [page EXCEPT !.accessToken = NullToken, !.refreshToken = NullToken]

\* What ProtectedRoute renders.
ProtectedRoute(user, loading) ==
    IF loading THEN "Loading..."
    ELSE IF user = NoUser THEN "Navigate to /login"
    ELSE "children"

\* The variables the browser's own steps leave alone.
ClientFrame ==
    UNCHANGED <<users, nextId, now, config, history, pending, limiter, served,
                posts, OPENAI_API_KEY, apiCalls, storeOps, likes, comments,
                explained>>

\* The page is loaded: AuthProvider mounts and initAuth runs up to its
\* first await, or to setLoading when local storage holds no access token.
Open ==
    /\ client.pc = "closed"
    /\ req' = [op |-> "open"]
    /\ res' = NoAnswer
    /\ client' = [client EXCEPT !.token = client.accessToken,
                                !.pc = IF present(client.accessToken)
                                       THEN "awaiting" ELSE "settled"]
    /\ ClientFrame

\* The outcomes of api.get('/auth/me'): the promise is rejected, or it is
\* resolved with the user object of a stored user.
MeOutcomes == {NoUser} \cup {publicUser(users[i]) : i \in DOMAIN users}

\* api.get('/auth/me') settles: setUser(data.user), or the catch block.
MeSettle(outcome) ==
    /\ client.pc = "awaiting"
    /\ req' = [op |-> "me"]
    /\ res' = NoAnswer
    /\ client' = IF outcome = NoUser
                 THEN [removeTokens(client) EXCEPT !.me = "rejected", !.pc = "settled"]
                 ELSE [client EXCEPT !.user = outcome, !.me = "resolved",
                                     !.pc = "settled"]
    /\ ClientFrame

\* setLoading(false), the last statement of initAuth.
Finish ==
    /\ client.pc = "settled"
    /\ req' = [op |-> "finish"]
    /\ res' = NoAnswer
    /\ client' = [client EXCEPT !.loading = FALSE, !.pc = "done"]
    /\ ClientFrame

\* login(email, password) of the loaded page: POST /auth/login, and on its
\* answer the tokens stored and the user set; a rejected request throws
\* before anything is stored.
ClientLogin(body) ==
    /\ client.pc \in {"done", "used"}
    /\ Login(body, "none")
    /\ client' = IF res'.status = 200
                 THEN [client EXCEPT !.accessToken = res'.accessToken,
                                     !.refreshToken = res'.refreshToken,
                                     !.user = publicUser(users'[res'.refreshToken.userId]),
                                     !.pc = "used"]
                 ELSE [client EXCEPT !.pc = "used"]
    /\ UNCHANGED <<pending, limiter, served, posts, OPENAI_API_KEY, apiCalls,
                   storeOps, likes, comments, explained>>

\* The tab is closed or reloaded: the state of AuthProvider is gone, local
\* storage stays.
Close ==
    /\ client.pc # "closed"
    /\ req' = [op |-> "close"]
    /\ res' = NoAnswer
    /\ client' = ClosedPage(client)
    /\ ClientFrame

NextStartup ==
    \/ Tick /\ UNCHANGED extra
    \/ Open
    \/ \E outcome \in MeOutcomes : MeSettle(outcome)
    \/ Finish
    \/ \E body \in SessionBodies : ClientLogin(body)
    \/ Close

SpecStartup == InitProfile /\ [][NextStartup]_vars

\* A request sent is answered or fails, and a running function runs on.
SpecStartupLive ==
    /\ SpecStartup
    /\ WF_vars(\E outcome \in MeOutcomes : MeSettle(outcome))
    /\ WF_vars(Finish)


\* ================================================================== claims
\* POST /auth/refresh would answer 200 to a request presenting t now.
Accepts(t) == refresh([refreshToken |-> t], "none").status = 200

\* The refresh tokens handed out for user u.
TokensOf(u) == {t \in IssuedRefresh : t.userId = u}

LastIsRefresh ==
    /\ req.op = "refresh"
    /\ Has(req.body, "refreshToken")
    /\ IsJwt(req.body.refreshToken)

\* C1: a refresh answered 200 returns a refresh token other than the one
\* presented, and a refresh token that a refresh has answered 200 to is
\* answered 401 from then on, whatever the second it is presented in.
C1_RefreshTokenSingleUse ==
    /\ (req.op = "refresh" /\ res.status = 200)
           => res.refreshToken # req.body.refreshToken
    /\ \A t \in consumed :
           \A fault \in StoreFaults : refresh([refreshToken |-> t], fault).status = 401

\* C2: for each user at most one refresh token is accepted, it is the one
\* of the user's most recent successful register, login or refresh, and
\* every refresh token issued to the user before that one is rejected.
C2_OnlyLatestTokenAccepted ==
    \A u \in UserIds :
        /\ Cardinality({t \in TokensOf(u) : Accepts(t)}) <= 1
        /\ \A t \in TokensOf(u) : Accepts(t) => t = last[u]
        /\ \A t \in older[u] :
               \A fault \in StoreFaults :
                   refresh([refreshToken |-> t], fault).status = 401

LoginBodyInvalid(body) ==
    \/ ~Has(body, "email")
    \/ ~isEmail(body.email)
    \/ ~Has(body, "password")
    \/ body.password = EmptyStr

RefreshBodyInvalid(body) ==
    \/ ~Has(body, "refreshToken")
    \/ body.refreshToken = RawStr(EmptyStr)

Authentic(headers, fault) ==
    /\ Has(headers, "authorization")
    /\ Len(headers.authorization) >= 2
    /\ headers.authorization[1] = RawStr(Bearer)
    /\ IsJwt(headers.authorization[2])
    /\ headers.authorization[2].sig = JWT_SECRET
    /\ now < headers.authorization[2].exp
    /\ headers.authorization[2].userId \in DOMAIN users
    /\ fault = "none"

\* C5: authenticate calls next exactly once; it calls it with no error and
\* with req.user the stored user record if and only if the header has the
\* form 'Bearer <token>', the token verifies as an unexpired access token
\* and its user id is in the store; otherwise it passes a 401 error and
\* leaves req.user unset.
C5_AuthenticateIff ==
    \A headers \in Headers, fault \in LookupFaults :
        LET out == authenticate(headers, fault)
        IN  /\ Len(out.nextArgs) = 1
            /\ Authentic(headers, fault) =>
                   /\ out.nextArgs[1] = NoArg
                   /\ out.user = users[headers.authorization[2].userId]
            /\ ~Authentic(headers, fault) =>
                   /\ out.nextArgs[1].kind = "ApiError"
                   /\ out.nextArgs[1].statusCode = 401
                   /\ out.user = NoUser

\* A request went through authenticate to its handler with its user attached.
C5_Witness ==
    /\ req.op = "authenticate"
    /\ Authentic(req.headers, req.fault)
    /\ res.nextArgs = <<NoArg>>
    /\ res.user \in {users[i] : i \in DOMAIN users}

\* C6: optionalAuth calls next exactly once and with no error on every
\* input; req.user is set, to the stored user record, if and only if the
\* token verifies and the user is found, and is unset otherwise.
C6_OptionalAuthNeverRejects ==
    \A headers \in Headers, fault \in LookupFaults :
        LET out == optionalAuth(headers, fault)
        IN  /\ out.nextArgs = <<NoArg>>
            /\ out.user # NoUser <=> Authentic(headers, fault)
            /\ Authentic(headers, fault) =>
                   out.user = users[headers.authorization[2].userId]

\* optionalAuth let a request through without a user although its token
\* verifies: the token's user is no longer in the store.
C6_Witness ==
    /\ req.op = "optionalAuth"
    /\ Has(req.headers, "authorization")
    /\ startsWithBearer(req.headers.authorization)
    /\ verifyAccessToken(splitToken(req.headers.authorization), now)
    /\ findById(splitToken(req.headers.authorization).userId) = {}
    /\ res = Passed(<<NoArg>>, NoUser)

\* The three causes of rejection C7 compares.
MissingHeader(headers) == ~Has(headers, "authorization")

InvalidToken(headers) ==
    /\ Has(headers, "authorization")
    /\ startsWithBearer(headers.authorization)
    /\ splitToken(headers.authorization) # RawStr(EmptyStr)
    /\ ~verifyAccessToken(splitToken(headers.authorization), now)

UserGone(headers) ==
    /\ Has(headers, "authorization")
    /\ startsWithBearer(headers.authorization)
    /\ verifyAccessToken(splitToken(headers.authorization), now)
    /\ findById(splitToken(headers.authorization).userId) = {}

\* C7: the error authenticate passes for a valid token whose user is gone,
\* for an invalid or expired token and for a missing header is the same in
\* status and in message.
C7_RejectionsIdentical ==
    \A h1, h2 \in Headers :
        (/\ MissingHeader(h1) \/ InvalidToken(h1) \/ UserGone(h1)
         /\ MissingHeader(h2) \/ InvalidToken(h2) \/ UserGone(h2))
        => /\ authenticate(h1, "none").nextArgs[1].statusCode =
                  authenticate(h2, "none").nextArgs[1].statusCode
           /\ authenticate(h1, "none").nextArgs[1].message =
                  authenticate(h2, "none").nextArgs[1].message

\* The three failing logins C8 compares, for a body the schema accepts.
Unregistered(body) == findByEmail(body.email) = {}

WrongPassword(body) ==
    \E user \in findByEmail(body.email) :
        /\ user.password # NoPassword
        /\ ~comparePassword(user, body.password)

NoPasswordHash(body) ==
    \E user \in findByEmail(body.email) : user.password = NoPassword

\* C8: a login with an unregistered email, one with a registered email and
\* a wrong password, and one with the email of an account without a
\* password hash are all answered 401 'Invalid email or password', and
\* none of them changes any stored user document.
C8_FailedLoginsAlike ==
    [][(/\ req'.op = "login"
        /\ req' # req \/ res' # res
        /\ loginSchema(req'.body) = <<>>
        /\ req'.fault # "find"
        /\ Unregistered(req'.body) \/ WrongPassword(req'.body)
               \/ NoPasswordHash(req'.body))
       => (/\ res'.status = 401
           /\ res'.message = "Invalid email or password"
           /\ users' = users)]_vars

\* A login to an account made by external identity, which has no password
\* hash, was turned away while another account holds a refresh token.
C8_Witness ==
    /\ req.op = "login"
    /\ loginSchema(req.body) = <<>>
    /\ NoPasswordHash(req.body)
    /\ res.status = 401
    /\ \E i \in DOMAIN users : users[i].refreshToken # NullToken

\* C9 as stated: under every accepted configuration a refresh token is
\* turned away by authenticate and an access token by POST /auth/refresh.
C9_KindsNeverInterchangeable ==
    /\ \A r \in IssuedRefresh :
           authenticate([authorization |-> <<RawStr(Bearer), r>>], "none")
               .nextArgs[1].statusCode = 401
    /\ \A a \in IssuedAccess :
           \A fault \in StoreFaults :
               refresh([refreshToken |-> a], fault).status = 401

\* C9 amended: when JWT_SECRET and JWT_REFRESH_SECRET differ, whatever the
\* two TTLs, a refresh token is turned away by authenticate with 401 and an
\* access token by POST /auth/refresh with 401; when the two secrets are
\* equal, authenticate accepts every unexpired refresh token of a stored user.
C9_KindsDistinctIffSecretsDiffer ==
    /\ JWT_SECRET # JWT_REFRESH_SECRET => C9_KindsNeverInterchangeable
    /\ JWT_SECRET = JWT_REFRESH_SECRET =>
           \A r \in IssuedRefresh :
               (now < r.exp /\ r.userId \in DOMAIN users) =>
                   authenticate([authorization |-> <<RawStr(Bearer), r>>], "none")
                       = Passed(<<NoArg>>, users[r.userId])

\* With differing secrets, an unexpired refresh token of a stored user was
\* presented as Bearer credential and turned away with 401.
C9_Witness ==
    /\ JWT_SECRET # JWT_REFRESH_SECRET
    /\ req.op = "authenticate"
    /\ Has(req.headers, "authorization")
    /\ req.headers.authorization[1] = RawStr(Bearer)
    /\ Len(req.headers.authorization) = 2
    /\ req.headers.authorization[2] \in IssuedRefresh
    /\ now < req.headers.authorization[2].exp
    /\ req.fault = "none"
    /\ res.nextArgs[1].statusCode = 401

\* C10: an access token is turned away by authenticate from the second its
\* TTL has elapsed although its user is stored, and is accepted before; the
\* stored refresh token is turned away by POST /auth/refresh from the
\* second its own TTL has elapsed, and is accepted before.
C10_ExpiryEnforced ==
    /\ \A a \in IssuedAccess :
           a.userId \in DOMAIN users =>
               LET out == authenticate([authorization |-> <<RawStr(Bearer), a>>], "none")
               IN  IF now < a.iat + JWT_EXPIRES_IN
                   THEN out = Passed(<<NoArg>>, users[a.userId])
                   ELSE /\ out.nextArgs[1].statusCode = 401
                        /\ out.user = NoUser
    /\ \A i \in DOMAIN users :
           users[i].refreshToken # NullToken =>
               IF now < users[i].refreshToken.iat + JWT_REFRESH_EXPIRES_IN
               THEN Accepts(users[i].refreshToken)
               ELSE refresh([refreshToken |-> users[i].refreshToken], "none").status = 401

\* The stored refresh token of a user was presented once its TTL had
\* elapsed and was answered 401.
C10_Witness ==
    /\ LastIsRefresh
    /\ req.fault = "none"
    /\ \E i \in DOMAIN users : users[i].refreshToken = req.body.refreshToken
    /\ now >= req.body.refreshToken.iat + JWT_REFRESH_EXPIRES_IN
    /\ res.status = 401

\* The username and email request r is about to write, and the document
\* it writes them to (0 for a new one).
WritesOf(r) ==
    IF pending[r].op = "register"
    THEN [id |-> 0, username |-> <<pending[r].body.username>>,
          email |-> <<pending[r].body.email>>]
    ELSE IF pending[r].op = "create"
    THEN [id |-> 0, username |-> <<pending[r].username>>,
          email |-> <<pending[r].email>>]
    ELSE IF pending[r].op = "update" /\ Has(pending[r].set, "username")
    THEN [id |-> pending[r].id, username |-> <<pending[r].set.username>>,
          email |-> <<>>]
    ELSE [id |-> pending[r].id, username |-> <<>>, email |-> <<>>]

\* Request r lost: another document took its username or email meanwhile.
Lost(r) ==
    /\ pending[r] # Idle
    /\ \E i \in DOMAIN users :
           /\ i # WritesOf(r).id
           /\ \/ <<users[i].username>> = WritesOf(r).username
              \/ <<users[i].email>> = WritesOf(r).email

UniqueUsers ==
    \A i, j \in DOMAIN users :
        i # j => /\ users[i].username # users[j].username
                 /\ users[i].email # users[j].email

\* C11: no two user records ever share a username or an email, whatever
\* the interleaving of registrations, username changes and external-identity
\* account creations between check and save, and a request whose username
\* or email was taken in between is answered 409 and writes nothing.
C11_UniqueUnderInterleaving ==
    /\ []UniqueUsers
    /\ [][\A r \in Requests :
             (Lost(r) /\ pending'[r] = Idle)
                 => (res'.status = 409 /\ users' = users)]_vars

\* A registration passed its existence check, another request stored its
\* username meanwhile, and its save was answered 409.
C11_Witness ==
    /\ req.op = "register"
    /\ res.status = 409
    /\ res.message = "username"
    /\ \E i \in DOMAIN users : users[i].username = req.body.username
    /\ UniqueUsers

\* The last request was a registration with a well-formed body that the
\* store answered without failure and that was turned away.
RegisterRefused ==
    /\ req.op = "register"
    /\ registerSchema(req.body) = <<>>
    /\ req.fault = "none"
    /\ res.status # 201

\* C12 as stated: a registration turned away is answered 409, with the
\* message naming the email whenever the email is an existing user's, and
\* naming the username when only the username is.
C12_ConflictNamesField ==
    RegisterRefused =>
        /\ res.status = 409
        /\ findByEmail(req.body.email) # {}
               => res.message = "Email already registered"
        /\ (findByEmail(req.body.email) = {} /\ findByUsername(req.body.username) # {})
               => res.message = "Username already taken"

\* C12 amended: with no concurrent request, a registration whose email or
\* username is an existing user's is answered 409, creates and modifies no
\* user record and issues no token; the message names the username when
\* only the username is taken, the email when the email is taken and the
\* username is not held by another user, and either of the two when the
\* email is one user's and the username another's.
C12_ConflictRefused ==
    [][(/\ req'.op = "register"
        /\ req' # req \/ res' # res
        /\ registerSchema(req'.body) = <<>>
        /\ req'.fault = "none"
        /\ findByEmail(req'.body.email) \cup findByUsername(req'.body.username) # {})
       => (/\ res'.status = 409
           /\ users' = users
           /\ nextId' = nextId
           /\ res'.accessToken = NullToken
           /\ res'.refreshToken = NullToken
           /\ res'.message \in {"Email already registered", "Username already taken"}
           /\ findByEmail(req'.body.email) = {}
                  => res'.message = "Username already taken"
           /\ findByUsername(req'.body.username) \subseteq findByEmail(req'.body.email)
                  => res'.message = "Email already registered")]_vars

\* A registration whose email is one user's and whose username is
\* another's was answered 409 with the message naming the username.
C12_Witness ==
    /\ RegisterRefused
    /\ res.status = 409
    /\ res.message = "Username already taken"
    /\ findByEmail(req.body.email) # {}
    /\ ~(findByUsername(req.body.username) \subseteq findByEmail(req.body.email))

\* C13: when a login answers 200 after another login of the same user,
\* in flight at the same time, has answered 200, the stored refresh token
\* is the one this login returned, POST /auth/refresh accepts it (as long
\* as it has not expired), and rejects the one the other login returned.
C13_LastWriteWins ==
    (/\ req.op = "login"
     /\ res.status = 200
     /\ Has(req, "other")
     /\ req.other # NullToken)
    => /\ users[res.refreshToken.userId].refreshToken = res.refreshToken
       /\ now < res.refreshToken.exp => Accepts(res.refreshToken)
       /\ ~Accepts(req.other)

\* The account a profile's email belongs to, when its external id is new.
LinkTarget(profile) ==
    IF /\ findByGoogleId(profile.id) = {}
       /\ Has(profile, "email")
       /\ profile.email # EmptyStr
    THEN findByEmail(profile.email)
    ELSE {}

\* C14: an external-identity login whose external id matches no account
\* and whose email is an existing account's sets that account's external
\* id to the profile's, returns that account and creates none; an account
\* is created only when neither the external id nor the email matches.
C14_LinkNotDuplicate ==
    [][(/\ req'.op = "google"
        /\ req' # req \/ res' # res
        /\ req'.fault = "none")
       => (/\ \A user \in LinkTarget(req'.profile) :
                  /\ DOMAIN users' = DOMAIN users
                  /\ nextId' = nextId
                  /\ users' = [users EXCEPT ![user._id].googleId = req'.profile.id]
                  /\ res'.status = 200
                  /\ res'.user = users'[user._id]
           /\ DOMAIN users' # DOMAIN users =>
                  /\ findByGoogleId(req'.profile.id) = {}
                  /\ LinkTarget(req'.profile) = {})]_vars

\* The verify callback handed on a registered account, one with a password
\* hash, that it linked to the profile's external id.
C14_Witness ==
    /\ req.op = "google"
    /\ res.status = 200
    /\ res.user.password # NoPassword
    /\ res.user.googleId = req.profile.id
    /\ res.user \in {users[i] : i \in DOMAIN users}

ProfileFields == {"username", "bio", "profileImage"}

\* The username of the request is held by a user other than :id.
NameHeld(id, body) ==
    /\ Has(body, "username")
    /\ \E j \in DOMAIN users : j # id /\ users[j].username = body.username

\* C15: PUT /users/:id changes a user record only when :id is the
\* authenticated caller's id, and then only its username, bio and profile
\* image; for any other caller it answers 403 and changes nothing; a
\* well-formed request with a username another user holds is answered 409
\* and changes nothing.
C15_OwnerOnly ==
    [][(req'.op = "update" /\ (req' # req \/ res' # res))
       => (/\ DOMAIN users' = DOMAIN users
           /\ \A i \in DOMAIN users :
                  users'[i] # users[i] =>
                      /\ i = req'.id
                      /\ i = req'.caller
                      /\ \A f \in DOMAIN users[i] \ ProfileFields :
                             users'[i][f] = users[i][f]
           /\ req'.caller # req'.id =>
                  (res'.status = 403 /\ users' = users)
           /\ (/\ req'.caller = req'.id
               /\ updateUserSchema(req'.body) = <<>>
               /\ NameHeld(req'.id, req'.body))
                  => (res'.status = 409 /\ users' = users))]_vars

\* A user's own update went through and changed the record, after which
\* the record holds the new username and bio.
C15_Witness ==
    /\ req.op = "update"
    /\ res.status = 200
    /\ req.caller = req.id
    /\ Has(req.body, "username")
    /\ Has(req.body, "bio")
    /\ users[req.id].username = req.body.username
    /\ users[req.id].bio = req.body.bio
    /\ users[req.id].username # Alice

\* The requests of user u that reached the handler within the hour that
\* starts at instant t.
ServedWithin(u, t) ==
    {i \in DOMAIN served[u] : served[u][i] >= t /\ served[u][i] < t + windowMs}

\* C16: for every user and every interval of one hour, wherever it starts,
\* at most max requests of that user reach the explanation handler.
C16_SlidingHourCap ==
    \A u \in UserIds : \A i \in DOMAIN served[u] :
        Cardinality(ServedWithin(u, served[u][i])) <= max

\* The last step was a call of getCodeExplanation for a post the store holds.
ExplainCalled ==
    /\ req'.op = "explain"
    /\ limiter' # limiter
    /\ res'.status # 429
    /\ req'.postId \in DOMAIN posts

\* The call finds a stored explanation and is not told to refresh.
FromCache == truthy(posts[req'.postId].aiExplanation) /\ ~req'.forceRefresh

\* The stored explanation is returned, nothing is called and nothing written.
CachedServed ==
    /\ res' = AiAnswer(200, "", posts[req'.postId].aiExplanation, TRUE)
    /\ apiCalls' = 0
    /\ posts' = posts

\* The API is called once and its result is stored and returned as not cached.
FreshStored ==
    /\ apiCalls' = 1
    /\ res'.status = 200
    /\ res'.cached = FALSE
    /\ posts'[req'.postId].aiExplanation = res'.explanation
    /\ \A p \in DOMAIN posts \ {req'.postId} : posts'[p] = posts[p]

\* C17 as stated: a call that finds a stored explanation and no forceRefresh
\* serves it without calling the API or writing; every other call calls the
\* API once and stores its result before returning cached=false.
C17_CacheOrCallOnce ==
    [][ExplainCalled =>
          IF FromCache THEN CachedServed ELSE FreshStored]_vars

\* C17, amended: the cached case as stated, also without an API key; any
\* other call fails without a call or a write when no API key is configured,
\* otherwise calls the API once, and stores what it returns (the API's text
\* or the fallback text) exactly when the API answers ok and the save succeeds.
C17_CacheOrCallOnceIfConfigured ==
    [][ExplainCalled =>
          IF FromCache THEN CachedServed
          ELSE IF OPENAI_API_KEY \in {Unset, ""}
          THEN apiCalls' = 0 /\ posts' = posts /\ res'.status = 400
          ELSE IF req'.api.kind = "ok" /\ req'.fault = "none"
          THEN FreshStored /\ res'.explanation = explanationOf(req'.api)
          ELSE apiCalls' = 1 /\ posts' = posts /\ res'.status = 400]_vars

\* Post 2, which had no explanation, got one from the API and a later call
\* without forceRefresh was served from it.
C17_Witness ==
    /\ req.op = "explain"
    /\ req.postId = 2
    /\ ~req.forceRefresh
    /\ res.status = 200
    /\ res.cached
    /\ res.explanation = "explanation 1"
    /\ apiCalls = 0

\* The Authorization header is "Bearer <token>" and the token is an access
\* token of this server that has not expired.
TokenVerifies(headers) ==
    /\ Has(headers, "authorization")
    /\ Len(headers.authorization) >= 2
    /\ headers.authorization[1] = RawStr(Bearer)
    /\ IsJwt(headers.authorization[2])
    /\ headers.authorization[2].sig = JWT_SECRET
    /\ now < headers.authorization[2].exp

\* C18: a run of authenticate or optionalAuth leaves the User collection as
\* it was; it issues exactly one lookup by id when the token verifies and no
\* store operation when the header or the token is rejected before.
C18_OneLookupNoWrite ==
    [][(req'.op \in {"authenticate", "optionalAuth"}
            /\ (req' # req \/ res' # res \/ storeOps' # storeOps))
       => (/\ users' = users
           /\ nextId' = nextId
           /\ storeOps' = IF TokenVerifies(req'.headers)
                          THEN <<"findById">> ELSE <<>>)]_vars

\* Both cases happened: authenticate looked the user of a verified token up,
\* found nobody and refused.
C18_Witness ==
    /\ req.op = "authenticate"
    /\ TokenVerifies(req.headers)
    /\ storeOps = <<"findById">>
    /\ res.nextArgs[1].message = "User not found"
    /\ users = <<>>

\* C19: no step changes the password hash of a user that exists before it:
\* login, refresh, logout, profile update and Google linking leave it as
\* account creation set it.
C19_PasswordHashImmutable ==
    [][\A i \in DOMAIN users :
           i \in DOMAIN users' /\ users'[i].password = users[i].password]_vars

\* The registered account was logged in to, linked to a Google identity and
\* renamed, and still holds the hash of the password it registered with.
C19_Witness ==
    /\ req.op = "update"
    /\ res.status = 200
    /\ 1 \in DOMAIN users
    /\ users[1].username = Carl
    /\ users[1].googleId = "g2"
    /\ users[1].refreshToken # NullToken
    /\ users[1].password = Hash(Secret1)

\* C20: every user record holds a password hash or an external id.
C20_PasswordOrGoogleId ==
    \A i \in DOMAIN users :
        users[i].password # NoPassword \/ users[i].googleId # NullId

\* One account made by registration, with a password and no external id, and
\* one made by Google sign-in, with an external id and no password.
C20_Witness ==
    /\ \E i \in DOMAIN users :
           users[i].password # NoPassword /\ users[i].googleId = NullId
    /\ \E i \in DOMAIN users :
           users[i].password = NoPassword /\ users[i].googleId # NullId

\* No request is between two of its awaits.
Quiescent == \A r \in Requests : pending[r] = Idle

\* The Like records of a post.
LikesOf(p) == {i \in DOMAIN likes : likes[i].postId = p}

\* C21: with no like request in flight, the likesCount of every post is the
\* number of its Like records, and is not negative.
C21_LikesCountExact ==
    Quiescent =>
        \A p \in DOMAIN posts :
            posts[p].likesCount = Cardinality(LikesOf(p)) /\ posts[p].likesCount >= 0

\* The Comment records of a post.
CommentsOf(p) == {i \in DOMAIN comments : comments[i].postId = p}

\* C22: with no comment request in flight, the commentsCount of every post
\* is the number of its Comment records, and is not negative.
C22_CommentsCountExact ==
    Quiescent =>
        \A p \in DOMAIN posts :
            /\ posts[p].commentsCount = Cardinality(CommentsOf(p))
            /\ posts[p].commentsCount >= 0

\* No two Like records have the same post and user.
UniqueLikes ==
    \A i, j \in DOMAIN likes :
        (likes[i].postId = likes[j].postId /\ likes[i].userId = likes[j].userId)
            => i = j

\* C23: there is at most one Like record per post and user; when requests
\* of one user for a post that user had not liked have all ended and a Like
\* record is stored, it is the only one and likesCount has gone up by one.
C23_OneLikePerPair ==
    /\ UniqueLikes
    /\ (Quiescent /\ LikesOf(1) # {})
           => (Cardinality(LikesOf(1)) = 1 /\ posts[1].likesCount = 1)

\* Two requests of user 1 both found no like; one stored its Like and saved
\* the count, the other was refused by the index and ended last.
C23_Witness ==
    /\ Quiescent
    /\ req.op = "like"
    /\ res.status = 409
    /\ Cardinality(LikesOf(1)) = 1
    /\ posts[1].likesCount = 1

\* The step is the first of a request, by a caller who is not the author of
\* the post or comment it names.
ByAnother ==
    /\ req'.op \in {"updatePost", "deletePost", "deleteComment"}
    /\ pending[req'.r] = Idle
    /\ IF req'.op = "deleteComment"
       THEN req'.id \in DOMAIN comments /\ comments[req'.id].userId # req'.caller
       ELSE req'.id \in DOMAIN posts /\ posts[req'.id].userId # req'.caller

\* C24: a post is changed or removed only by a request of its author, a
\* comment removed only by a request of its author; a request of anybody
\* else for it gets 403 and goes no further, with posts, likes and comments
\* as they were.
C24_AuthorOnly ==
    [][/\ \A p \in DOMAIN posts :
              (\/ p \notin DOMAIN posts'
               \/ posts'[p].code # posts[p].code
               \/ posts'[p].language # posts[p].language)
                  => (/\ req'.op \in {"updatePost", "deletePost"}
                      /\ req'.id = p
                      /\ req'.caller = posts[p].userId)
       /\ \A c \in DOMAIN comments :
              c \notin DOMAIN comments'
                  => (/\ req'.op = "deleteComment"
                      /\ req'.id = c
                      /\ req'.caller = comments[c].userId)
       /\ ByAnother
              => (/\ res'.status = 403
                  /\ UNCHANGED <<posts, likes, comments, pending>>)]_vars

\* User 2 asked to delete the post of user 1 and got 403; post, like and
\* comments are all there.
C24_Witness ==
    /\ req.op = "deletePost"
    /\ req.caller = 2
    /\ res.status = 403
    /\ posts[1].userId = 1
    /\ posts[1].commentsCount = 2
    /\ DOMAIN likes = {1}
    /\ DOMAIN comments = {1, 2}

\* C25: with no request in flight, every Like record is of a post the store
\* holds: none references a post that DELETE /posts/:id removed.
C25_NoLikeOfDeletedPost ==
    Quiescent => \A i \in DOMAIN likes : likes[i].postId \in DOMAIN posts

\* C26: of the POST /auth/refresh requests that present the same refresh
\* token, at most one answers 200: a refresh that was in flight while
\* another one presenting the same token answered 200 does not answer 200
\* (the case in which the token returned is the token presented is left
\* to C1).
C26_OneRefreshPerToken ==
    (/\ req.op = "refresh"
     /\ Has(req, "beaten")
     /\ req.beaten
     /\ res.status = 200)
    => res.refreshToken = req.body.refreshToken

\* The request that presents t as its bearer token.
BearerOf(t) == [authorization |-> <<RawStr(Bearer), t>>]

\* C27: logout leaves the access tokens alone: an access token issued to a
\* user is accepted by authenticate, with that user attached, for as long
\* as its time to live has not elapsed, and so also at every moment after
\* a logout of the user.
C27_AccessSurvivesLogout ==
    \A t \in IssuedAccess :
        now < t.exp =>
            authenticate(BearerOf(t), "none") = Passed(<<NoArg>>, users[t.userId])

\* A logged-out user, whose stored refresh token is empty, presented an
\* access token issued before the logout and was let through.
C27_Witness ==
    /\ req.op = "authenticate"
    /\ Has(req.headers, "authorization")
    /\ splitToken(req.headers.authorization) \in IssuedAccess
    /\ splitToken(req.headers.authorization).userId \in loggedOut
    /\ users[splitToken(req.headers.authorization).userId].refreshToken = NullToken
    /\ res = Passed(<<NoArg>>, users[splitToken(req.headers.authorization).userId])

\* C28: an explanation answered as cached was generated from the code and
\* the language the post holds when it is answered.
C28_CachedIsCurrent ==
    (/\ req.op = "explain"
     /\ res.status = 200
     /\ res.cached
     /\ req.postId \in DOMAIN explained)
    => explained[req.postId] = promptOf(posts[req.postId])

\* C29: a POST /auth/register that answers anything other than 201 leaves
\* the user records as they were.
C29_RegisterAllOrNothing ==
    [][(req'.op = "register" /\ res'.status # 201) => users' = users]_vars

\* initAuth is running.
Starting == client.pc \in {"awaiting", "settled"}

====
